---- MODULE Spec2Model ----
(***************************************************************************)
(* State-machine model of the chat backend: the relational tables of       *)
(* server/src/db/schema.ts and the handlers that read and write them.      *)
(* Identifiers (uuids) are modelled as positive integers handed out in     *)
(* order; 0 stands for an absent or null field and -1 for the empty        *)
(* string, the one string that JavaScript treats as falsy.                 *)
(***************************************************************************)
EXTENDS Integers, Sequences, FiniteSets, TLC

\* ---------------------------------------------------------------- bounds
MaxUsers == 2
MaxChannels == 2
MaxGroups == 1
MaxConversations == 2
MaxMessages == 2
MaxReads == 2
MaxTime == 2
NumCalls == 2
MaxNamedUsers == 3
MaxTyping == 3
MaxMembers == 2

\* ------------------------------------------------------- value encoding
\* undefined and null: `x != null` and `x || null` do not tell them apart
Null == 0
\* the empty string "": accepted by z.string(), `!= null` but falsy
Empty == 0 - 1

Ok == "ok"

\* the cleanup window of startTyping, `10 * 1000` ms, in clock ticks of ten
\* seconds
TypingCleanupWindow == 1

\* the visibility window of getTypingIndicators, 30 seconds, in the same ticks
TypingVisibilityWindow == 3

\* the response size limit of generateLinkPreview, 1024 * 1024 bytes
MAX_SIZE == 1048576

\* how far the clock runs where indicators are left to expire
MaxTypingTime == 4

VARIABLES
  usersTable,           \* set of user ids
  displayNames,         \* users.display_name, by user id
  channelsTable,        \* sequence of channel rows, row i has id i
  channelMembersTable,  \* sequence of channel_members rows
  groupsTable,          \* sequence of group rows
  groupMembersTable,    \* sequence of group_members rows
  messagesTable,        \* sequence of message rows
  messageReadsTable,    \* sequence of message_reads rows
  typingIndicatorsTable, \* set of typing_indicators rows
  typingIndicatorIds,   \* number of typing_indicators ids handed out so far
  now,                  \* the database clock (defaultNow())
  calls,                \* handler calls in flight, statement by statement
  last                  \* the last completed handler call and its outcome

tables == <<usersTable, displayNames, channelsTable, channelMembersTable, groupsTable,
            groupMembersTable, messagesTable, messageReadsTable, typingIndicatorsTable>>

vars == <<usersTable, displayNames, channelsTable, channelMembersTable, groupsTable,
          groupMembersTable, messagesTable, messageReadsTable, typingIndicatorsTable,
          typingIndicatorIds, now, calls, last>>

UserIds == 1..MaxUsers
ChannelIds == 1..MaxChannels
GroupIds == 1..MaxGroups
MessageIds == 1..MaxMessages
Calls == 1..NumCalls

\* ------------------------------------------------------------- helpers
\* JavaScript truthiness of an optional string
truthy(x) == x # Null /\ x # Empty

\* `x || null`
orNull(x) == IF truthy(x) THEN x ELSE Null

Range(s) == {s[i] : i \in DOMAIN s}

\* what a caller observes of a completed call: the handler, the input where
\* a claim reads it, the error thrown (or Ok) and the value returned.
\* Specifications whose claims read no outcome start with last.op = "off"
\* and keep it.
record(op, input, error, result) ==
  IF last.op = "off" THEN last
  ELSE [op |-> op, input |-> input, error |-> error, result |-> result]

\* ---------------------------------------------------- membership checks
\* variant: any member row of the channel will do
isChannelMember_anyUser(channel_id, user_id) ==
  \E i \in DOMAIN channelMembersTable :
     channelMembersTable[i].channel_id = channel_id

isChannelMember(channel_id, user_id) ==
  \E i \in DOMAIN channelMembersTable :
     /\ channelMembersTable[i].channel_id = channel_id
     /\ channelMembersTable[i].user_id = user_id

isGroupMember(group_id, user_id) ==
  \E i \in DOMAIN groupMembersTable :
     /\ groupMembersTable[i].group_id = group_id
     /\ groupMembersTable[i].user_id = user_id

\* ----------------------------------------------------------- createUser
\* strings are sequences of characters; "" is the empty sequence
PlainNames == {<<"a">>}
DisplayNames == {<<>>, <<"a">>, <<"b">>}

\* createUser for display names drawn from display_names, at most limit users
createUserFor(display_names, limit) ==
  \E display_name \in display_names :
  LET id == Cardinality(usersTable) + 1 IN
  /\ id <= limit
  /\ usersTable' = usersTable \cup {id}
  /\ displayNames' = Append(displayNames, display_name)
  /\ last' = record("createUser", Null, Ok, id)
  /\ UNCHANGED <<channelsTable, channelMembersTable, groupsTable, groupMembersTable,
                 messagesTable, messageReadsTable, typingIndicatorsTable,
                 typingIndicatorIds, now, calls>>

createUser == createUserFor(PlainNames, MaxUsers)

\* -------------------------------------------------------- createChannel
\* variant: the creator is not looked up
createChannel_unchecked ==
  \E created_by \in UserIds :
    LET id == Len(channelsTable) + 1 IN
    /\ id <= MaxChannels
    /\ Len(channelsTable) + Len(groupsTable) < MaxConversations
    /\ channelsTable' = Append(channelsTable,
          [id |-> id, name |-> <<"c">>, created_by |-> created_by])
    /\ channelMembersTable' = Append(channelMembersTable,
          [id |-> Len(channelMembersTable) + 1, channel_id |-> id,
           user_id |-> created_by, role |-> "owner"])
    /\ last' = record("createChannel", Null, Ok, id)
    /\ UNCHANGED <<usersTable, displayNames, typingIndicatorsTable, typingIndicatorIds,
                   groupsTable, groupMembersTable, messagesTable, messageReadsTable,
                   now, calls>>

createChannel ==
  \E created_by \in UserIds :
    IF created_by \notin usersTable
    THEN /\ last' = record("createChannel", Null, "User not found", Null)
         /\ UNCHANGED <<tables, typingIndicatorIds, now, calls>>
    ELSE LET id == Len(channelsTable) + 1 IN
         /\ id <= MaxChannels
         /\ Len(channelsTable) + Len(groupsTable) < MaxConversations
         /\ channelsTable' = Append(channelsTable,
               [id |-> id, name |-> <<"c">>, created_by |-> created_by])
         /\ channelMembersTable' = Append(channelMembersTable,
               [id |-> Len(channelMembersTable) + 1, channel_id |-> id,
                user_id |-> created_by, role |-> "owner"])
         /\ last' = record("createChannel", Null, Ok, id)
         /\ UNCHANGED <<usersTable, displayNames, typingIndicatorsTable, typingIndicatorIds, groupsTable, groupMembersTable, messagesTable,
                        messageReadsTable, now, calls>>

\* ---------------------------------------------------------- joinChannel
joinChannelError(input) ==
  IF input.user_id \notin usersTable THEN "User not found"
  ELSE IF input.channel_id \notin DOMAIN channelsTable THEN "Channel not found"
  ELSE IF isChannelMember(input.channel_id, input.user_id)
       THEN "User is already a member of this channel"
  ELSE Ok

joinChannel ==
  \E user_id \in UserIds, channel_id \in ChannelIds :
    LET input == [user_id |-> user_id, channel_id |-> channel_id, role |-> "member"]
        err == joinChannelError(input) IN
    /\ last' = record("joinChannel", Null, err, Null)
    /\ channelMembersTable' =
         IF err = Ok
         THEN Append(channelMembersTable,
                [id |-> Len(channelMembersTable) + 1, channel_id |-> channel_id,
                 user_id |-> user_id, role |-> input.role])
         ELSE channelMembersTable
    /\ UNCHANGED <<usersTable, displayNames, typingIndicatorsTable, typingIndicatorIds, channelsTable, groupsTable, groupMembersTable,
                   messagesTable, messageReadsTable, now, calls>>

\* ---------------------------------------------------------- createGroup
\* the rows added for the deduplicated member list, in ascending id order
RECURSIVE groupMemberRows(_, _, _)
groupMemberRows(group_id, members, nextId) ==
  IF members = {} THEN <<>>
  ELSE LET m == CHOOSE x \in members : \A y \in members : x <= y IN
       <<[id |-> nextId, group_id |-> group_id, user_id |-> m]>>
         \o groupMemberRows(group_id, members \ {m}, nextId + 1)

\* a nullable string: None is null or undefined, Some(s) the string s
None == <<>>
Some(s) == <<s>>
GroupNames == {None, Some(<<>>), Some(<<"team">>)}

\* `name || null`
nameOrNull(name) == IF name # None /\ name[1] # <<>> THEN name ELSE None

\* member_ids: a non-empty array, repetitions allowed
MemberLists(ids) == UNION {[1..n -> ids] : n \in 1..MaxMembers}

\* variant: the creator is not added
allMemberIds_noCreator(member_ids, created_by) == Range(member_ids)

\* `[...new Set([...member_ids, created_by])]`
allMemberIds(member_ids, created_by) == Range(member_ids \o <<created_by>>)

\* createGroup for names drawn from names and user ids drawn from ids
createGroupFor(names, ids) ==
  \E name \in names, created_by \in ids, member_ids \in MemberLists(ids) :
    IF ~(allMemberIds(member_ids, created_by) \subseteq usersTable)
    THEN /\ last' = record("createGroup", Null, "Users not found", Null)
         /\ UNCHANGED <<tables, typingIndicatorIds, now, calls>>
    ELSE LET id == Len(groupsTable) + 1 IN
         /\ id <= MaxGroups
         /\ Len(channelsTable) + Len(groupsTable) < MaxConversations
         /\ groupsTable' = Append(groupsTable,
               [id |-> id, name |-> nameOrNull(name), created_by |-> created_by])
         /\ groupMembersTable' = groupMembersTable \o
               groupMemberRows(id, allMemberIds(member_ids, created_by),
                               Len(groupMembersTable) + 1)
         /\ last' = record("createGroup",
               [name |-> name, created_by |-> created_by, member_ids |-> member_ids],
               Ok, id)
         /\ UNCHANGED <<usersTable, displayNames, typingIndicatorsTable, typingIndicatorIds, channelsTable, channelMembersTable, messagesTable,
                        messageReadsTable, now, calls>>

createGroup == createGroupFor({None}, UserIds)

\* ---------------------------------------------------------- sendMessage
OptionalIds(S) == {Null, Empty} \cup S

\* what sendMessageInputSchema accepts, content and type left out
SendMessageInput ==
  [author_id : UserIds,
   channel_id : OptionalIds(ChannelIds),
   group_id : OptionalIds(GroupIds),
   recipient_id : OptionalIds(UserIds),
   reply_to_id : OptionalIds(MessageIds)]

\* variant: group_id left out of the count
destinationCount_noGroup(input) ==
  (IF input.channel_id # Null THEN 1 ELSE 0)
    + (IF input.recipient_id # Null THEN 1 ELSE 0)

\* [channel_id, group_id, recipient_id].filter(dest => dest != null).length
destinationCount(input) ==
  (IF input.channel_id # Null THEN 1 ELSE 0)
    + (IF input.group_id # Null THEN 1 ELSE 0)
    + (IF input.recipient_id # Null THEN 1 ELSE 0)

\* variant: a reply target in any channel is taken for the same channel
sameDest_anyChannel(input, originalMessage) ==
  \/ truthy(input.channel_id) /\ originalMessage.channel_id # Null
  \/ truthy(input.group_id) /\ originalMessage.group_id = input.group_id
  \/ /\ truthy(input.recipient_id)
     /\ \/ /\ originalMessage.recipient_id = input.recipient_id
           /\ originalMessage.author_id = input.author_id
        \/ /\ originalMessage.author_id = input.recipient_id
           /\ originalMessage.recipient_id = input.author_id

\* variant: a direct reply target is matched on its recipient alone
sameDest_recipientOnly(input, originalMessage) ==
  \/ truthy(input.channel_id) /\ originalMessage.channel_id = input.channel_id
  \/ truthy(input.group_id) /\ originalMessage.group_id = input.group_id
  \/ /\ truthy(input.recipient_id)
     /\ \/ originalMessage.recipient_id = input.recipient_id
        \/ /\ originalMessage.author_id = input.recipient_id
           /\ originalMessage.recipient_id = input.author_id

sameDest(input, originalMessage) ==
  \/ truthy(input.channel_id) /\ originalMessage.channel_id = input.channel_id
  \/ truthy(input.group_id) /\ originalMessage.group_id = input.group_id
  \/ /\ truthy(input.recipient_id)
     /\ \/ /\ originalMessage.recipient_id = input.recipient_id
           /\ originalMessage.author_id = input.author_id
        \/ /\ originalMessage.author_id = input.recipient_id
           /\ originalMessage.recipient_id = input.author_id

ErrDestination == "Message must have exactly one destination (channel, group, or recipient)"
ErrNotChannelMember == "User is not a member of the specified channel"
ErrNotGroupMember == "User is not a member of the specified group"
ErrRecipient == "Recipient user does not exist"
ErrReplyMissing == "Reply target message does not exist"
ErrReplyCross == "Reply must be to message in same conversation"
ErrAuthor == "Author user does not exist"

validateDestination(input) ==
  IF destinationCount(input) # 1 THEN ErrDestination
  ELSE IF truthy(input.channel_id) /\ ~isChannelMember(input.channel_id, input.author_id)
       THEN ErrNotChannelMember
  ELSE IF truthy(input.group_id) /\ ~isGroupMember(input.group_id, input.author_id)
       THEN ErrNotGroupMember
  ELSE IF truthy(input.recipient_id) /\ input.recipient_id \notin usersTable
       THEN ErrRecipient
  ELSE IF truthy(input.reply_to_id)
       THEN IF input.reply_to_id \notin DOMAIN messagesTable THEN ErrReplyMissing
            ELSE IF ~sameDest(input, messagesTable[input.reply_to_id]) THEN ErrReplyCross
            ELSE Ok
  ELSE Ok

\* the row that db.insert(messagesTable).values({...}) writes
messageRow(input) ==
  [id |-> Len(messagesTable) + 1,
   author_id |-> input.author_id,
   channel_id |-> orNull(input.channel_id),
   group_id |-> orNull(input.group_id),
   recipient_id |-> orNull(input.recipient_id),
   reply_to_id |-> orNull(input.reply_to_id),
   created_at |-> now]

\* variant: the row is written before the input is validated
sendMessage_writeFirst(input) ==
  LET err == IF input.author_id \notin usersTable THEN ErrAuthor
             ELSE validateDestination(input) IN
  [error |-> err, messagesTable |-> Append(messagesTable, messageRow(input))]

\* variant: the row is inserted twice
sendMessage_insertTwice(input) ==
  LET err == IF input.author_id \notin usersTable THEN ErrAuthor
             ELSE validateDestination(input) IN
  [error |-> err,
   messagesTable |-> IF err = Ok
                     THEN Append(Append(messagesTable, messageRow(input)), messageRow(input))
                     ELSE messagesTable]

\* outcome of one sendMessage call: the error thrown (or Ok) and the
\* messages table it leaves behind. The handler's statements are modelled
\* as one step: users, memberships and messages are never deleted, so a
\* check that passed still holds when the insert runs.
sendMessage(input) ==
  LET err == IF input.author_id \notin usersTable THEN ErrAuthor
             ELSE validateDestination(input) IN
  [error |-> err,
   messagesTable |-> IF err = Ok THEN Append(messagesTable, messageRow(input))
                     ELSE messagesTable]

\* one call with any input the schema accepts; calls with the same outcome
\* are one step
SendMessage ==
  \E r \in {sendMessage(input) : input \in SendMessageInput} :
    /\ Len(r.messagesTable) <= MaxMessages
    /\ messagesTable' = r.messagesTable
    /\ last' = record("sendMessage", Null, r.error,
                      IF r.error = Ok THEN Len(r.messagesTable) ELSE Null)
    /\ UNCHANGED <<usersTable, displayNames, typingIndicatorsTable, typingIndicatorIds, channelsTable, channelMembersTable, groupsTable,
                   groupMembersTable, messageReadsTable, now, calls>>

\* ------------------------------------------------------ markMessageRead
MarkMessageReadInput == [message_id : MessageIds, user_id : UserIds]

\* select from message_reads where message_id = ... and user_id = ...
existingRead(input) ==
  {r \in Range(messageReadsTable) :
     r.message_id = input.message_id /\ r.user_id = input.user_id}

\* the row that db.insert(messageReadsTable).values({...}) writes
readRow(input) ==
  [id |-> Len(messageReadsTable) + 1,
   message_id |-> input.message_id,
   user_id |-> input.user_id,
   read_at |-> now]

\* variant: the user is looked up before the message
markMessageRead_userFirst(input) ==
  IF input.user_id \notin usersTable
  THEN {[error |-> "User not found", result |-> Null, messageReadsTable |-> messageReadsTable]}
  ELSE IF input.message_id \notin DOMAIN messagesTable
  THEN {[error |-> "Message not found", result |-> Null, messageReadsTable |-> messageReadsTable]}
  ELSE IF existingRead(input) # {}
  THEN {[error |-> Ok, result |-> r, messageReadsTable |-> messageReadsTable] :
           r \in existingRead(input)}
  ELSE {[error |-> Ok, result |-> readRow(input),
         messageReadsTable |-> Append(messageReadsTable, readRow(input))]}

\* variant: only a member of the message's channel or group, or a party to
\* the direct message, may mark it read
markMessageRead_membersOnly(input) ==
  IF input.message_id \notin DOMAIN messagesTable
  THEN {[error |-> "Message not found", result |-> Null, messageReadsTable |-> messageReadsTable]}
  ELSE IF input.user_id \notin usersTable
  THEN {[error |-> "User not found", result |-> Null, messageReadsTable |-> messageReadsTable]}
  ELSE IF LET m == messagesTable[input.message_id] IN
          ~(\/ isChannelMember(m.channel_id, input.user_id)
            \/ isGroupMember(m.group_id, input.user_id)
            \/ m.author_id = input.user_id
            \/ m.recipient_id = input.user_id)
  THEN {[error |-> "Access denied", result |-> Null, messageReadsTable |-> messageReadsTable]}
  ELSE IF existingRead(input) # {}
  THEN {[error |-> Ok, result |-> r, messageReadsTable |-> messageReadsTable] :
           r \in existingRead(input)}
  ELSE {[error |-> Ok, result |-> readRow(input),
         messageReadsTable |-> Append(messageReadsTable, readRow(input))]}

\* variant: no look-up of an existing receipt, every call inserts
markMessageRead_alwaysInsert(input) ==
  IF input.message_id \notin DOMAIN messagesTable
  THEN {[error |-> "Message not found", result |-> Null, messageReadsTable |-> messageReadsTable]}
  ELSE IF input.user_id \notin usersTable
  THEN {[error |-> "User not found", result |-> Null, messageReadsTable |-> messageReadsTable]}
  ELSE {[error |-> Ok, result |-> readRow(input),
         messageReadsTable |-> Append(messageReadsTable, readRow(input))]}

\* the possible outcomes of one call that runs without interleaving: the
\* error thrown (or Ok), the receipt returned and the table left behind.
\* existingRead[0] is any of the matching rows (the select has no order).
markMessageRead(input) ==
  IF input.message_id \notin DOMAIN messagesTable
  THEN {[error |-> "Message not found", result |-> Null, messageReadsTable |-> messageReadsTable]}
  ELSE IF input.user_id \notin usersTable
  THEN {[error |-> "User not found", result |-> Null, messageReadsTable |-> messageReadsTable]}
  ELSE IF existingRead(input) # {}
  THEN {[error |-> Ok, result |-> r, messageReadsTable |-> messageReadsTable] :
           r \in existingRead(input)}
  ELSE {[error |-> Ok, result |-> readRow(input),
         messageReadsTable |-> Append(messageReadsTable, readRow(input))]}

MarkMessageRead ==
  \E input \in MarkMessageReadInput : \E r \in markMessageRead(input) :
    /\ Len(r.messageReadsTable) <= MaxReads
    /\ messageReadsTable' = r.messageReadsTable
    /\ last' = record("markMessageRead", input, r.error, r.result)
    /\ UNCHANGED <<usersTable, displayNames, typingIndicatorsTable, typingIndicatorIds, channelsTable, channelMembersTable, groupsTable,
                   groupMembersTable, messagesTable, now, calls>>

\* markMessageRead statement by statement: every awaited query is one step
\* of call c, and steps of different calls interleave freely
call(pc, input, error, result) ==
  [pc |-> pc, input |-> input, error |-> error, result |-> result]

\* the call arrives and runs `select from messages where id = message_id`
markSelectMessage(c) ==
  /\ calls[c].pc = "idle"
  /\ \E input \in MarkMessageReadInput :
       calls' = [calls EXCEPT ![c] =
          IF input.message_id \notin DOMAIN messagesTable
          THEN call("done", input, "Message not found", Null)
          ELSE call("selectUser", input, Ok, Null)]
  /\ UNCHANGED <<tables, typingIndicatorIds, now, last>>

\* `select from users where id = user_id`
markSelectUser(c) ==
  /\ calls[c].pc = "selectUser"
  /\ calls' = [calls EXCEPT ![c] =
        IF calls[c].input.user_id \notin usersTable
        THEN call("done", calls[c].input, "User not found", Null)
        ELSE call("selectRead", calls[c].input, Ok, Null)]
  /\ UNCHANGED <<tables, typingIndicatorIds, now, last>>

\* `select from message_reads where ...`; a hit is returned at once
markSelectRead(c) ==
  /\ calls[c].pc = "selectRead"
  /\ IF existingRead(calls[c].input) # {}
     THEN \E r \in existingRead(calls[c].input) :
            calls' = [calls EXCEPT ![c] = call("done", calls[c].input, Ok, r)]
     ELSE calls' = [calls EXCEPT ![c] = call("insert", calls[c].input, Ok, Null)]
  /\ UNCHANGED <<tables, typingIndicatorIds, now, last>>

\* `insert into message_reads ... returning`: the table has no unique
\* constraint on (message_id, user_id), so the insert always succeeds
markInsert(c) ==
  /\ calls[c].pc = "insert"
  /\ Len(messageReadsTable) < MaxReads
  /\ messageReadsTable' = Append(messageReadsTable, readRow(calls[c].input))
  /\ calls' = [calls EXCEPT ![c] = call("done", calls[c].input, Ok, readRow(calls[c].input))]
  /\ UNCHANGED <<usersTable, displayNames, typingIndicatorsTable, typingIndicatorIds, channelsTable, channelMembersTable, groupsTable,
                 groupMembersTable, messagesTable, now, last>>

MarkMessageReadStep ==
  \E c \in Calls :
    markSelectMessage(c) \/ markSelectUser(c) \/ markSelectRead(c) \/ markInsert(c)

\* ---------------------------------------------------------- startTyping
\* what startTypingInputSchema accepts: a user and any combination of an
\* absent or empty field, the first channel, the first group and the first
\* user as recipient
StartTypingInput ==
  [user_id : UserIds,
   channel_id : {Null, Empty, 1},
   group_id : {Null, 1},
   recipient_id : {Null, 1}]

\* variant: nothing is cleaned up
cleanUp_keepAll(indicators) == indicators

\* `delete from typing_indicators where started_at < now - 10 s`
cleanUp(indicators) ==
  {r \in indicators : ~(r.started_at < now - TypingCleanupWindow)}

\* the `where` of the lookup: the user and the first location field given
typingConditions(r, input) ==
  /\ r.user_id = input.user_id
  /\ IF truthy(input.channel_id) THEN r.channel_id = input.channel_id
     ELSE IF truthy(input.group_id) THEN r.group_id = input.group_id
     ELSE IF truthy(input.recipient_id) THEN r.recipient_id = input.recipient_id
     ELSE TRUE

typingRow(input) ==
  [id |-> typingIndicatorIds + 1,
   user_id |-> input.user_id,
   channel_id |-> orNull(input.channel_id),
   group_id |-> orNull(input.group_id),
   recipient_id |-> orNull(input.recipient_id),
   started_at |-> now]

ErrForeignKey == "violates foreign key constraint"

\* the references() of typingIndicatorsTable
typingForeignKeys(row) ==
  /\ row.user_id \in usersTable
  /\ row.channel_id = Null \/ row.channel_id \in DOMAIN channelsTable
  /\ row.group_id = Null \/ row.group_id \in DOMAIN groupsTable
  /\ row.recipient_id = Null \/ row.recipient_id \in usersTable

\* the outcomes of one call: the clean-up, then the refresh of
\* existingIndicator[0], which is any of the matching rows, or the insert
startTyping(input) ==
  LET cleaned == cleanUp(typingIndicatorsTable)
      existingIndicator == {r \in cleaned : typingConditions(r, input)}
  IN IF existingIndicator # {}
     THEN {[error |-> Ok,
            result |-> [r EXCEPT !.started_at = now],
            typingIndicatorsTable |-> (cleaned \ {r}) \cup {[r EXCEPT !.started_at = now]},
            typingIndicatorIds |-> typingIndicatorIds] : r \in existingIndicator}
     ELSE IF ~typingForeignKeys(typingRow(input))
     THEN {[error |-> ErrForeignKey,
            result |-> Null,
            typingIndicatorsTable |-> cleaned,
            typingIndicatorIds |-> typingIndicatorIds]}
     ELSE {[error |-> Ok,
            result |-> typingRow(input),
            typingIndicatorsTable |-> cleaned \cup {typingRow(input)},
            typingIndicatorIds |-> typingIndicatorIds + 1]}

\* a call with an input drawn from inputs, while at most limit indicators
\* have been created
StartTypingFor(inputs, limit) ==
  \E input \in inputs : \E r \in startTyping(input) :
    /\ r.typingIndicatorIds <= limit
    /\ typingIndicatorsTable' = r.typingIndicatorsTable
    /\ typingIndicatorIds' = r.typingIndicatorIds
    /\ last' = record("startTyping", input, r.error, r.result)
    /\ UNCHANGED <<usersTable, displayNames, channelsTable, channelMembersTable,
                   groupsTable, groupMembersTable, messagesTable, messageReadsTable,
                   now, calls>>

StartTyping == StartTypingFor(StartTypingInput, MaxTyping)

\* startTyping statement by statement, for calls that run concurrently
\* the call arrives and runs the clean-up delete
typingDelete(c) ==
  /\ calls[c].pc = "idle"
  /\ \E input \in StartTypingInput :
       calls' = [calls EXCEPT ![c] = call("typingSelect", input, Ok, Null)]
  /\ typingIndicatorsTable' = cleanUp(typingIndicatorsTable)
  /\ UNCHANGED <<usersTable, displayNames, channelsTable, channelMembersTable,
                 groupsTable, groupMembersTable, messagesTable, messageReadsTable,
                 typingIndicatorIds, now, last>>

\* `select from typing_indicators where ...`
typingSelect(c) ==
  /\ calls[c].pc = "typingSelect"
  /\ LET existingIndicator ==
           {r \in typingIndicatorsTable : typingConditions(r, calls[c].input)}
     IN IF existingIndicator # {}
        THEN \E r \in existingIndicator :
               calls' = [calls EXCEPT ![c] = call("typingUpdate", calls[c].input, Ok, r)]
        ELSE calls' = [calls EXCEPT ![c] = call("typingInsert", calls[c].input, Ok, Null)]
  /\ UNCHANGED <<tables, typingIndicatorIds, now, last>>

\* `update typing_indicators set started_at = now where id = ... returning`;
\* result[0] is undefined when the row is gone by now
typingUpdate(c) ==
  /\ calls[c].pc = "typingUpdate"
  /\ LET found == {r \in typingIndicatorsTable : r.id = calls[c].result.id} IN
     IF found = {}
     THEN /\ calls' = [calls EXCEPT ![c] = call("done", calls[c].input, Ok, Null)]
          /\ UNCHANGED typingIndicatorsTable
     ELSE \E r \in found :
            /\ typingIndicatorsTable' =
                 (typingIndicatorsTable \ {r}) \cup {[r EXCEPT !.started_at = now]}
            /\ calls' = [calls EXCEPT ![c] =
                 call("done", calls[c].input, Ok, [r EXCEPT !.started_at = now])]
  /\ UNCHANGED <<usersTable, displayNames, channelsTable, channelMembersTable,
                 groupsTable, groupMembersTable, messagesTable, messageReadsTable,
                 typingIndicatorIds, now, last>>

\* `insert into typing_indicators ... returning`: the table has no unique
\* constraint on the user and location
typingInsert(c) ==
  /\ calls[c].pc = "typingInsert"
  /\ IF ~typingForeignKeys(typingRow(calls[c].input))
     THEN /\ calls' = [calls EXCEPT ![c] =
                call("done", calls[c].input, ErrForeignKey, Null)]
          /\ UNCHANGED <<typingIndicatorsTable, typingIndicatorIds>>
     ELSE /\ typingIndicatorIds < MaxTyping
          /\ typingIndicatorsTable' =
                typingIndicatorsTable \cup {typingRow(calls[c].input)}
          /\ typingIndicatorIds' = typingIndicatorIds + 1
          /\ calls' = [calls EXCEPT ![c] =
                call("done", calls[c].input, Ok, typingRow(calls[c].input))]
  /\ UNCHANGED <<usersTable, displayNames, channelsTable, channelMembersTable,
                 groupsTable, groupMembersTable, messagesTable, messageReadsTable,
                 now, last>>

StartTypingStep ==
  \E c \in Calls :
    typingDelete(c) \/ typingSelect(c) \/ typingUpdate(c) \/ typingInsert(c)

\* joinChannel statement by statement: every awaited query is one step of
\* call c, and steps of different calls interleave freely
JoinChannelInput == [user_id : UserIds, channel_id : ChannelIds, role : {"member"}]

\* the call arrives and runs `select from users where id = user_id`
joinSelectUser(c) ==
  /\ calls[c].pc = "idle"
  /\ \E input \in JoinChannelInput :
       calls' = [calls EXCEPT ![c] =
          IF input.user_id \notin usersTable
          THEN call("done", input, "User not found", Null)
          ELSE call("joinSelectChannel", input, Ok, Null)]
  /\ UNCHANGED <<tables, typingIndicatorIds, now, last>>

\* `select from channels where id = channel_id`
joinSelectChannel(c) ==
  /\ calls[c].pc = "joinSelectChannel"
  /\ calls' = [calls EXCEPT ![c] =
        IF calls[c].input.channel_id \notin DOMAIN channelsTable
        THEN call("done", calls[c].input, "Channel not found", Null)
        ELSE call("joinSelectMember", calls[c].input, Ok, Null)]
  /\ UNCHANGED <<tables, typingIndicatorIds, now, last>>

\* `select from channel_members where channel_id = ... and user_id = ...`
joinSelectMember(c) ==
  /\ calls[c].pc = "joinSelectMember"
  /\ calls' = [calls EXCEPT ![c] =
        IF isChannelMember(calls[c].input.channel_id, calls[c].input.user_id)
        THEN call("done", calls[c].input, "User is already a member of this channel", Null)
        ELSE call("joinInsert", calls[c].input, Ok, Null)]
  /\ UNCHANGED <<tables, typingIndicatorIds, now, last>>

\* `insert into channel_members ... returning`: the table has no unique
\* constraint on (channel_id, user_id), so the insert always succeeds
joinInsert(c) ==
  /\ calls[c].pc = "joinInsert"
  /\ LET row == [id |-> Len(channelMembersTable) + 1,
                 channel_id |-> calls[c].input.channel_id,
                 user_id |-> calls[c].input.user_id,
                 role |-> calls[c].input.role] IN
     /\ channelMembersTable' = Append(channelMembersTable, row)
     /\ calls' = [calls EXCEPT ![c] = call("done", calls[c].input, Ok, row)]
  /\ UNCHANGED <<usersTable, displayNames, typingIndicatorsTable, typingIndicatorIds,
                 channelsTable, groupsTable, groupMembersTable, messagesTable,
                 messageReadsTable, now, last>>

JoinChannelStep ==
  \E c \in Calls :
    joinSelectUser(c) \/ joinSelectChannel(c) \/ joinSelectMember(c) \/ joinInsert(c)

\* ----------------------------------------------------------- stopTyping
\* variant: the rows of everybody but the user
stopConditions_otherUsers(r, input) == r.user_id # input.user_id

\* variant: the named field alone, without the null checks on the other two
stopConditions_noNullChecks(r, input) ==
  /\ r.user_id = input.user_id
  /\ IF truthy(input.channel_id) THEN r.channel_id = input.channel_id
     ELSE IF truthy(input.group_id) THEN r.group_id = input.group_id
     ELSE IF truthy(input.recipient_id) THEN r.recipient_id = input.recipient_id
     ELSE TRUE

\* variant: without a location only the indicators without a location go
stopConditions_exactLocation(r, input) ==
  /\ r.user_id = input.user_id
  /\ r.channel_id = orNull(input.channel_id)
  /\ r.group_id = orNull(input.group_id)
  /\ r.recipient_id = orNull(input.recipient_id)

\* the `where` of the delete
stopConditions(r, input) ==
  /\ r.user_id = input.user_id
  /\ IF truthy(input.channel_id)
     THEN r.channel_id = input.channel_id /\ r.group_id = Null /\ r.recipient_id = Null
     ELSE IF truthy(input.group_id)
     THEN r.group_id = input.group_id /\ r.channel_id = Null /\ r.recipient_id = Null
     ELSE IF truthy(input.recipient_id)
     THEN r.recipient_id = input.recipient_id /\ r.channel_id = Null /\ r.group_id = Null
     ELSE TRUE

stopTyping(input) == {r \in typingIndicatorsTable : ~stopConditions(r, input)}

StopTyping ==
  \E input \in StartTypingInput :
    /\ typingIndicatorsTable' = stopTyping(input)
    /\ last' = record("stopTyping", input, Ok, Null)
    /\ UNCHANGED <<usersTable, displayNames, channelsTable, channelMembersTable,
                   groupsTable, groupMembersTable, messagesTable, messageReadsTable,
                   typingIndicatorIds, now, calls>>

\* -------------------------------------------------- getTypingIndicators
getTypingIndicators_noCutoff(channelId, groupId, recipientId) ==
  {r \in typingIndicatorsTable :
     /\ truthy(channelId) => r.channel_id = channelId
     /\ truthy(groupId) => r.group_id = groupId
     /\ truthy(recipientId) => r.recipient_id = recipientId}

\* cutoffTime is thirty seconds before the call; a filter is added for each
\* truthy argument
getTypingIndicators(channelId, groupId, recipientId) ==
  {r \in typingIndicatorsTable :
     /\ r.started_at >= now - TypingVisibilityWindow
     /\ truthy(channelId) => r.channel_id = channelId
     /\ truthy(groupId) => r.group_id = groupId
     /\ truthy(recipientId) => r.recipient_id = recipientId}

\* ------------------------------------------------- getUserConversations
\* last_message: null
NoMessage ==
  [id |-> Null, author_id |-> Null, channel_id |-> Null, group_id |-> Null,
   recipient_id |-> Null, created_at |-> Null]

\* the null-extended right side of a left join row without a match
NoRead == [id |-> Null, message_id |-> Null, user_id |-> Null, read_at |-> Null]

\* `order by created_at desc limit 1` leaves the choice among rows of equal
\* created_at to the database; a tie-break tb ranks the message ids and
\* stands for one such choice
TieBreaks == {tb \in [MessageIds -> MessageIds] : \A i, j \in MessageIds : tb[i] = tb[j] => i = j}

lastMessages(msgs, tb) ==
  LET newest == {m \in msgs : \A o \in msgs : o.created_at <= m.created_at} IN
  IF msgs = {} THEN <<>>
  ELSE <<CHOOSE m \in newest : \A o \in newest : tb[o.id] <= tb[m.id]>>

\* variant: an inner join, which drops the messages without a receipt
leftJoinReads_innerJoin(userId) ==
  {row \in Range(messagesTable) \X Range(messageReadsTable) :
      row[2].message_id = row[1].id /\ row[2].user_id = userId}

\* messages left join message_reads
\*   on (message_reads.message_id = messages.id and message_reads.user_id = userId)
leftJoinReads(userId) ==
  {row \in Range(messagesTable) \X Range(messageReadsTable) :
      row[2].message_id = row[1].id /\ row[2].user_id = userId}
  \cup
  {<<m, NoRead>> : m \in {m \in Range(messagesTable) :
      ~\E r \in Range(messageReadsTable) : r.message_id = m.id /\ r.user_id = userId}}

\* variant: in channels and groups the user's own messages are left out
conditions_notOwn(m, userId, conversationId, type) ==
  CASE type = "channel" -> m.channel_id = conversationId /\ m.author_id # userId
    [] type = "group" -> m.group_id = conversationId /\ m.author_id # userId
    [] type = "direct" -> /\ m.author_id = conversationId
                          /\ m.recipient_id = userId
                          /\ m.channel_id = Null
                          /\ m.group_id = Null

conditions(m, userId, conversationId, type) ==
  CASE type = "channel" -> m.channel_id = conversationId
    [] type = "group" -> m.group_id = conversationId
    [] type = "direct" -> /\ m.author_id = conversationId
                          /\ m.recipient_id = userId
                          /\ m.channel_id = Null
                          /\ m.group_id = Null

\* variant: the join does not restrict the receipts to those of userId
getUnreadCount_anyReader(userId, conversationId, type) ==
  Cardinality({m \in Range(messagesTable) :
     /\ conditions(m, userId, conversationId, type)
     /\ ~\E r \in Range(messageReadsTable) : r.message_id = m.id})

getUnreadCount(userId, conversationId, type) ==
  Cardinality({row \in leftJoinReads(userId) :
     conditions(row[1], userId, conversationId, type) /\ row[2].id = Null})

\* variant: `lastMessages.length > 1`
lastMessage_offByOne(lastMessagesResult, channel_id, group_id, recipient_id) ==
  IF Len(lastMessagesResult) > 1
  THEN [id |-> lastMessagesResult[1].id,
        author_id |-> lastMessagesResult[1].author_id,
        channel_id |-> channel_id,
        group_id |-> group_id,
        recipient_id |-> recipient_id,
        created_at |-> lastMessagesResult[1].created_at]
  ELSE NoMessage

lastMessage(lastMessagesResult, channel_id, group_id, recipient_id) ==
  IF Len(lastMessagesResult) > 0
  THEN [id |-> lastMessagesResult[1].id,
        author_id |-> lastMessagesResult[1].author_id,
        channel_id |-> channel_id,
        group_id |-> group_id,
        recipient_id |-> recipient_id,
        created_at |-> lastMessagesResult[1].created_at]
  ELSE NoMessage

userIdsOf(memberRows) == [i \in DOMAIN memberRows |-> memberRows[i].user_id]

\* Array.prototype.join(', ')
RECURSIVE join(_)
join(strings) ==
  IF strings = <<>> THEN <<>>
  ELSE IF Len(strings) = 1 THEN strings[1]
  ELSE strings[1] \o <<",", " ">> \o join(Tail(strings))

UnnamedGroup == <<"Unnamed Group">>

\* variant: the requesting user is not filtered out of the generated name
groupName_withSelf(group_name, participants, userId) ==
  IF group_name # None /\ group_name[1] # <<>> THEN group_name[1]
  ELSE LET joined == join([i \in DOMAIN participants |-> displayNames[participants[i]]])
       IN IF joined # <<>> THEN joined ELSE UnnamedGroup

\* result.group_name || participants.filter(...).map(...).join(', ') || 'Unnamed Group'
groupName(group_name, participants, userId) ==
  IF group_name # None /\ group_name[1] # <<>> THEN group_name[1]
  ELSE LET others == SelectSeq(participants, LAMBDA p : p # userId)
           joined == join([i \in DOMAIN others |-> displayNames[others[i]]])
       IN IF joined # <<>> THEN joined ELSE UnnamedGroup

\* variant: the membership join without its `where user_id = userId`
getChannelConversations_everyMember(userId, tb) ==
  LET channelResults == SelectSeq(channelMembersTable, LAMBDA r : TRUE) IN
  [i \in DOMAIN channelResults |->
     LET channel_id == channelResults[i].channel_id IN
     [id |-> channel_id,
      name |-> channelsTable[channel_id].name,
      type |-> "channel",
      participants |-> userIdsOf(SelectSeq(channelMembersTable,
                                           LAMBDA r : r.channel_id = channel_id)),
      last_message |-> lastMessage(
         lastMessages({m \in Range(messagesTable) : m.channel_id = channel_id}, tb),
         channel_id, Null, Null),
      unread_count |-> getUnreadCount(userId, channel_id, "channel")]]

getChannelConversations(userId, tb) ==
  LET channelResults == SelectSeq(channelMembersTable, LAMBDA r : r.user_id = userId) IN
  [i \in DOMAIN channelResults |->
     LET channel_id == channelResults[i].channel_id IN
     [id |-> channel_id,
      name |-> channelsTable[channel_id].name,
      type |-> "channel",
      participants |-> userIdsOf(SelectSeq(channelMembersTable,
                                           LAMBDA r : r.channel_id = channel_id)),
      last_message |-> lastMessage(
         lastMessages({m \in Range(messagesTable) : m.channel_id = channel_id}, tb),
         channel_id, Null, Null),
      unread_count |-> getUnreadCount(userId, channel_id, "channel")]]

getGroupConversations(userId, tb) ==
  LET groupResults == SelectSeq(groupMembersTable, LAMBDA r : r.user_id = userId) IN
  [i \in DOMAIN groupResults |->
     LET group_id == groupResults[i].group_id
         participants == userIdsOf(SelectSeq(groupMembersTable,
                                             LAMBDA r : r.group_id = group_id)) IN
     [id |-> group_id,
      name |-> groupName(groupsTable[group_id].name, participants, userId),
      type |-> "group",
      participants |-> participants,
      last_message |-> lastMessage(
         lastMessages({m \in Range(messagesTable) : m.group_id = group_id}, tb),
         Null, group_id, Null),
      unread_count |-> getUnreadCount(userId, group_id, "group")]]

\* variant: an array instead of a Set, every direct message adds its peer again
RECURSIVE otherUserIds_noSet(_, _)
otherUserIds_noSet(userId, n) ==
  IF n = 0 THEN <<>>
  ELSE LET found == otherUserIds_noSet(userId, n - 1)
           m == messagesTable[n]
           selected == /\ (m.author_id = userId \/ m.recipient_id = userId)
                       /\ m.channel_id = Null
                       /\ m.group_id = Null
           other == IF m.author_id = userId /\ m.recipient_id # Null THEN m.recipient_id
                    ELSE IF m.recipient_id = userId THEN m.author_id
                    ELSE Null
       IN IF selected /\ other # Null
          THEN Append(found, other) ELSE found

\* the Set otherUserIds after the first n rows of dmMessages, in insertion order
RECURSIVE otherUserIds(_, _)
otherUserIds(userId, n) ==
  IF n = 0 THEN <<>>
  ELSE LET found == otherUserIds(userId, n - 1)
           m == messagesTable[n]
           selected == /\ (m.author_id = userId \/ m.recipient_id = userId)
                       /\ m.channel_id = Null
                       /\ m.group_id = Null
           other == IF m.author_id = userId /\ m.recipient_id # Null THEN m.recipient_id
                    ELSE IF m.recipient_id = userId THEN m.author_id
                    ELSE Null
       IN IF selected /\ other # Null /\ other \notin Range(found)
          THEN Append(found, other) ELSE found

getDirectMessageConversations(userId, tb) ==
  LET peers == SelectSeq(otherUserIds(userId, Len(messagesTable)),
                         LAMBDA o : o \in usersTable /\ userId \in usersTable) IN
  [i \in DOMAIN peers |->
     LET otherUserId == peers[i] IN
     [id |-> otherUserId,
      name |-> displayNames[otherUserId],
      type |-> "direct",
      participants |-> <<userId, otherUserId>>,
      last_message |-> lastMessage(
         lastMessages({m \in Range(messagesTable) :
            /\ \/ m.author_id = userId /\ m.recipient_id = otherUserId
               \/ m.author_id = otherUserId /\ m.recipient_id = userId
            /\ m.channel_id = Null
            /\ m.group_id = Null}, tb),
         Null, Null, otherUserId),
      unread_count |-> getUnreadCount(userId, otherUserId, "direct")]]

\* variant: the timestamps subtracted the other way round
compareConversations_oldestFirst(a, b) ==
  IF a.last_message.id = Null /\ b.last_message.id = Null THEN 0
  ELSE IF a.last_message.id = Null THEN 1
  ELSE IF b.last_message.id = Null THEN 0 - 1
  ELSE a.last_message.created_at - b.last_message.created_at

\* the comparator handed to conversations.sort
compareConversations(a, b) ==
  IF a.last_message.id = Null /\ b.last_message.id = Null THEN 0
  ELSE IF a.last_message.id = Null THEN 1
  ELSE IF b.last_message.id = Null THEN 0 - 1
  ELSE b.last_message.created_at - a.last_message.created_at

\* Array.prototype.sort is stable
RECURSIVE insertSorted(_, _)
insertSorted(sorted, x) ==
  IF sorted = <<>> THEN <<x>>
  ELSE IF compareConversations(Head(sorted), x) <= 0
       THEN <<Head(sorted)>> \o insertSorted(Tail(sorted), x)
       ELSE <<x>> \o sorted

RECURSIVE sortConversations(_)
sortConversations(conversations) ==
  IF conversations = <<>> THEN <<>>
  ELSE insertSorted(sortConversations(SubSeq(conversations, 1, Len(conversations) - 1)),
                    conversations[Len(conversations)])

getUserConversations(userId, tb) ==
  sortConversations(getChannelConversations(userId, tb)
                      \o getGroupConversations(userId, tb)
                      \o getDirectMessageConversations(userId, tb))

\* -------------------------------------------------------- searchMessages
\* the content of a message is not part of the state: the messages whose
\* content matches `%searchQuery%` are an argument, any set of message ids
Matchings == SUBSET MessageIds

\* `limit`
SearchLimits == 1..MaxMessages

userChannelIds(userId) ==
  {channelMembersTable[i].channel_id :
     i \in {j \in DOMAIN channelMembersTable : channelMembersTable[j].user_id = userId}}

userGroupIds(userId) ==
  {groupMembersTable[i].group_id :
     i \in {j \in DOMAIN groupMembersTable : groupMembersTable[j].user_id = userId}}

\* variant: without a channelId, the messages of every channel
accessConditions_anyChannel(r, userId, channelId, groupId) ==
  \/ r.recipient_id = userId /\ r.channel_id = Null /\ r.group_id = Null
  \/ r.author_id = userId /\ r.channel_id = Null /\ r.group_id = Null
  \/ IF truthy(channelId) THEN r.channel_id = channelId
     ELSE r.channel_id # Null
  \/ IF truthy(groupId) THEN r.group_id = groupId
     ELSE r.group_id \in userGroupIds(userId)

\* accessConditions, combined with or
accessConditions(r, userId, channelId, groupId) ==
  \/ r.recipient_id = userId /\ r.channel_id = Null /\ r.group_id = Null
  \/ r.author_id = userId /\ r.channel_id = Null /\ r.group_id = Null
  \/ IF truthy(channelId) THEN r.channel_id = channelId
     ELSE r.channel_id \in userChannelIds(userId)
  \/ IF truthy(groupId) THEN r.group_id = groupId
     ELSE r.group_id \in userGroupIds(userId)

\* `order by created_at desc limit`: the rows with fewer than limit rows
\* before them; rows of one instant come in the order tb
newestFirst(rows, limit, tb) ==
  {r \in rows :
     Cardinality({o \in rows :
        \/ o.created_at > r.created_at
        \/ o.created_at = r.created_at /\ tb[o.id] > tb[r.id]}) < limit}

\* the messages returned, as a set
searchMessages(matching, userId, channelId, groupId, limit, tb) ==
  IF truthy(channelId) /\ ~isChannelMember(channelId, userId) THEN {}
  ELSE IF truthy(groupId) /\ ~isGroupMember(groupId, userId) THEN {}
  ELSE newestFirst({r \in Range(messagesTable) :
                      /\ r.author_id \in usersTable
                      /\ r.id \in matching
                      /\ accessConditions(r, userId, channelId, groupId)},
                   limit, tb)

\* --------------------------------------------------- generateLinkPreview
\* a host as written in the URL: a name (a = 0 for localhost, 1 for
\* example.com), an IPv4 address a.b.0.c, or an IPv6 address whose first
\* group is a and whose last is c, written in brackets
Hosts ==
  [kind : {"name"}, a : {0, 1}, b : {0}, c : {0}]
    \cup [kind : {"ipv4"}, a : {127}, b : {0}, c : {1, 2}]
    \cup {[kind |-> "ipv4", a |-> 10, b |-> 0, c |-> 1],
          [kind |-> "ipv4", a |-> 172, b |-> 16, c |-> 1],
          [kind |-> "ipv4", a |-> 172, b |-> 32, c |-> 1],
          [kind |-> "ipv4", a |-> 192, b |-> 168, c |-> 1],
          [kind |-> "ipv4", a |-> 169, b |-> 254, c |-> 1],
          [kind |-> "ipv4", a |-> 8, b |-> 8, c |-> 8]}
    \cup [kind : {"ipv6"}, a : {0, 64512, 65152, 8193}, b : {0}, c : {1}]

\* the argument: a string `new URL` rejects, or a URL with a scheme and a host
Urls ==
  [parses : {TRUE}, protocol : {"http:", "https:", "ftp:"}, host : Hosts]
    \cup [parses : {FALSE}, protocol : {"http:"},
          host : {[kind |-> "name", a |-> 1, b |-> 0, c |-> 0]}]

\* what the network does with a fetch: it rejects, it runs into the ten second
\* timeout, or it answers with a status, a content type and, possibly, a
\* content-length header
Responses ==
  [kind : {"response"}, ok : BOOLEAN, html : BOOLEAN,
   contentLength : {Null, MAX_SIZE, MAX_SIZE + 1}]
    \cup [kind : {"rejects", "timeout"}, ok : {FALSE}, html : {FALSE},
          contentLength : {Null}]

\* `parsedUrl.hostname`: the host as written; an IPv6 address keeps its
\* brackets
hostname(url) ==
  [bracketed |-> url.host.kind = "ipv6", kind |-> url.host.kind,
   a |-> url.host.a, b |-> url.host.b, c |-> url.host.c]

\* hostname === 'localhost' || hostname === '127.0.0.1' || hostname === '::1'
isLoopbackName(h) ==
  \/ h.kind = "name" /\ h.a = 0
  \/ h.kind = "ipv4" /\ h.a = 127 /\ h.b = 0 /\ h.c = 1
  \/ h.kind = "ipv6" /\ ~h.bracketed /\ h.a = 0 /\ h.c = 1

\* privateRanges.some(range => range.test(hostname)): every pattern is
\* anchored at the first character
privateRanges(h) ==
  \/ h.kind = "ipv4" /\ h.a = 10
  \/ h.kind = "ipv4" /\ h.a = 172 /\ h.b \in 16..31
  \/ h.kind = "ipv4" /\ h.a = 192 /\ h.b = 168
  \/ h.kind = "ipv4" /\ h.a = 169 /\ h.b = 254
  \/ h.kind = "ipv6" /\ ~h.bracketed /\ h.a = 64512
  \/ h.kind = "ipv6" /\ ~h.bracketed /\ h.a = 65152

\* null, or the URL to fetch
validateUrl(url) ==
  IF ~url.parses THEN None
  ELSE IF url.protocol # "http:" /\ url.protocol # "https:" THEN None
  ELSE IF isLoopbackName(hostname(url)) THEN None
  ELSE IF privateRanges(hostname(url)) THEN None
  ELSE Some(url)

\* whether a fetch was issued, and whether a preview (not null) is returned;
\* everything runs inside try and the catch returns null
generateLinkPreview(url, response) ==
  IF validateUrl(url) = None THEN [fetched |-> FALSE, preview |-> FALSE]
  ELSE IF response.kind # "response" THEN [fetched |-> TRUE, preview |-> FALSE]
  ELSE IF ~response.ok THEN [fetched |-> TRUE, preview |-> FALSE]
  ELSE IF ~response.html THEN [fetched |-> TRUE, preview |-> FALSE]
  ELSE IF response.contentLength # Null /\ response.contentLength > MAX_SIZE
       THEN [fetched |-> TRUE, preview |-> FALSE]
  ELSE [fetched |-> TRUE, preview |-> TRUE]

GenerateLinkPreview ==
  \E url \in Urls, response \in Responses :
    /\ last' = record("generateLinkPreview", [url |-> url, response |-> response],
                      Ok, generateLinkPreview(url, response))
    /\ UNCHANGED <<tables, typingIndicatorIds, now, calls>>

\* ------------------------------------------------------------- the clock
TickFor(limit) ==
  /\ now < limit
  /\ now' = now + 1
  /\ UNCHANGED <<tables, typingIndicatorIds, calls, last>>

Tick == TickFor(MaxTime)

Init ==
  /\ usersTable = {}
  /\ displayNames = <<>>
  /\ channelsTable = <<>>
  /\ channelMembersTable = <<>>
  /\ groupsTable = <<>>
  /\ groupMembersTable = <<>>
  /\ messagesTable = <<>>
  /\ messageReadsTable = <<>>
  /\ typingIndicatorsTable = {}
  /\ typingIndicatorIds = 0
  /\ now = 0
  /\ calls = [c \in Calls |-> call("idle", Null, Ok, Null)]
  /\ last = [op |-> "none", input |-> Null, error |-> Ok, result |-> Null]

\* the same empty database, outcomes not recorded
InitQuiet ==
  /\ usersTable = {}
  /\ displayNames = <<>>
  /\ channelsTable = <<>>
  /\ channelMembersTable = <<>>
  /\ groupsTable = <<>>
  /\ groupMembersTable = <<>>
  /\ messagesTable = <<>>
  /\ messageReadsTable = <<>>
  /\ typingIndicatorsTable = {}
  /\ typingIndicatorIds = 0
  /\ now = 0
  /\ calls = [c \in Calls |-> call("idle", Null, Ok, Null)]
  /\ last = [op |-> "off", input |-> Null, error |-> Ok, result |-> Null]

\* the message router: accounts, channels, groups and sendMessage
Next ==
  \/ createUser
  \/ createChannel
  \/ joinChannel
  \/ createGroup
  \/ SendMessage

Spec == Init /\ [][Next]_vars

\* link previews
NextLinkPreview == GenerateLinkPreview

SpecLinkPreview == Init /\ [][NextLinkPreview]_vars

\* direct messages and markMessageRead, outcomes recorded
NextMark ==
  \/ createUser
  \/ SendMessage
  \/ MarkMessageRead

SpecMark == Init /\ [][NextMark]_vars

\* sendMessage next to receipts, memberships and typing indicators
DirectTypingInput ==
  [user_id : UserIds, channel_id : {Null}, group_id : {Null}, recipient_id : {1}]

NextFrame ==
  \/ createUser
  \/ createChannel
  \/ SendMessage
  \/ MarkMessageRead
  \/ StartTypingFor(DirectTypingInput, 1)

SpecFrame == InitQuiet /\ [][NextFrame]_vars

\* channels and groups whose members write and read
NextOwn ==
  \/ createUser
  \/ createChannel
  \/ createGroup
  \/ SendMessage
  \/ MarkMessageRead

SpecOwn == InitQuiet /\ [][NextOwn]_vars

\* messages to search in
NextSearch ==
  \/ createUser
  \/ createChannel
  \/ joinChannel
  \/ createGroup
  \/ SendMessage

SpecSearch == InitQuiet /\ [][NextSearch]_vars

\* conversations and unread accounting: the router plus markMessageRead
NextRead ==
  \/ createUser
  \/ createChannel
  \/ joinChannel
  \/ createGroup
  \/ SendMessage
  \/ MarkMessageRead

SpecRead == InitQuiet /\ [][NextRead]_vars

\* read receipts over time: direct messages, markMessageRead and the clock
NextReceipt ==
  \/ createUser
  \/ SendMessage
  \/ MarkMessageRead
  \/ Tick

SpecReceipt == Init /\ [][NextReceipt]_vars

\* conversations over time: channels, groups, messages and the clock
NextTimeline ==
  \/ createUser
  \/ createChannel
  \/ createGroup
  \/ SendMessage
  \/ Tick

SpecTimeline == InitQuiet /\ [][NextTimeline]_vars

\* group names: users with any display name, groups with any name
NamedUserIds == 1..MaxNamedUsers

NextNames ==
  \/ createUserFor(DisplayNames, MaxNamedUsers)
  \/ createGroupFor(GroupNames, NamedUserIds)

SpecNames == Init /\ [][NextNames]_vars

\* the typing-indicator lifecycle
NextTyping ==
  \/ createUser
  \/ createChannel
  \/ StartTyping
  \/ StopTyping
  \/ Tick

SpecTyping == InitQuiet /\ [][NextTyping]_vars

\* two startTyping calls in a row, outcomes recorded
NextTypingTwice ==
  \/ createUser
  \/ StartTyping
  \/ Tick

SpecTypingTwice == Init /\ [][NextTypingTwice]_vars

\* startTyping and stopTyping calls, outcomes recorded
NextTypingStop ==
  \/ createUser
  \/ StartTyping
  \/ StopTyping

SpecTypingStop == Init /\ [][NextTypingStop]_vars

\* indicators left to expire
NextTypingExpiry ==
  \/ createUser
  \/ createChannel
  \/ StartTyping
  \/ TickFor(MaxTypingTime)

SpecTypingExpiry == InitQuiet /\ [][NextTypingExpiry]_vars

\* concurrent joinChannel calls next to createChannel and createGroup
NextJoinConcurrent ==
  \/ createUser
  \/ createChannel
  \/ createGroup
  \/ JoinChannelStep

SpecJoinConcurrent == InitQuiet /\ [][NextJoinConcurrent]_vars

\* concurrent startTyping calls
NextTypingConcurrent ==
  \/ createUser
  \/ createChannel
  \/ StartTypingStep
  \/ Tick

SpecTypingConcurrent == InitQuiet /\ [][NextTypingConcurrent]_vars

\* concurrent markMessageRead calls on direct messages
NextConcurrent ==
  \/ createUser
  \/ SendMessage
  \/ MarkMessageReadStep

SpecConcurrent == InitQuiet /\ [][NextConcurrent]_vars

\* =============================================================== claims
Destinations == {"channel_id", "group_id", "recipient_id"}

\* the destination fields for which the caller supplied a string
DestinationsSet(input) == {k \in Destinations : input[k] # Null}

\* the row's destination fields that are not null
RowDestinations(m) == {k \in Destinations : m[k] # Null}

onlyChannel(input) ==
  truthy(input.channel_id) /\ input.group_id = Null /\ input.recipient_id = Null

onlyGroup(input) ==
  truthy(input.group_id) /\ input.channel_id = Null /\ input.recipient_id = Null

HasChannelRow(c, u) ==
  [channel_id |-> c, user_id |-> u] \in
     {[channel_id |-> r.channel_id, user_id |-> r.user_id] : r \in Range(channelMembersTable)}

HasGroupRow(g, u) ==
  [group_id |-> g, user_id |-> u] \in
     {[group_id |-> r.group_id, user_id |-> r.user_id] : r \in Range(groupMembersTable)}

\* C1: for an existing author, a sendMessage call whose input sets zero, two
\* or three of channel_id, group_id, recipient_id (whichever they are) is
\* rejected with the 'exactly one destination' error and writes no message.
C1_DestinationCountRejected ==
  \A input \in SendMessageInput :
    (input.author_id \in usersTable /\ Cardinality(DestinationsSet(input)) \in {0, 2, 3})
      => /\ sendMessage(input).error = ErrDestination
         /\ sendMessage(input).messagesTable = messagesTable

C1_Witness ==
  /\ last.op = "sendMessage"
  /\ last.error = ErrDestination
  /\ usersTable # {}

\* C2: every row of the messages table has exactly one of channel_id,
\* group_id, recipient_id non-null, whatever accepted input (absent, null,
\* empty or any other string per field) sendMessage was called with.
C2_ExactlyOneDestinationPerRow ==
  \A i \in DOMAIN messagesTable : Cardinality(RowDestinations(messagesTable[i])) = 1

\* C3: a message is written with a channel (group) destination only when
\* its author has a membership row in that channel (group) at that moment;
\* an existing author without such a row gets the 'not a member' error,
\* whether or not the channel (group) exists.
C3_NonMemberRejected ==
  \A input \in SendMessageInput :
    input.author_id \in usersTable =>
      /\ (onlyChannel(input) /\ ~HasChannelRow(input.channel_id, input.author_id))
            => sendMessage(input).error = ErrNotChannelMember
      /\ (onlyGroup(input) /\ ~HasGroupRow(input.group_id, input.author_id))
            => sendMessage(input).error = ErrNotGroupMember

C3_WrittenByMember ==
  \A i \in (DOMAIN messagesTable') \ (DOMAIN messagesTable) :
    LET m == messagesTable'[i] IN
    /\ m.channel_id # Null => HasChannelRow(m.channel_id, m.author_id)
    /\ m.group_id # Null => HasGroupRow(m.group_id, m.author_id)

C3_MembersOnly == []C3_NonMemberRejected /\ [][C3_WrittenByMember]_vars

C3_Witness ==
  /\ last.op = "sendMessage"
  /\ last.error = ErrNotGroupMember
  /\ \E i \in DOMAIN messagesTable : messagesTable[i].channel_id # Null
  /\ \E i \in DOMAIN messagesTable : messagesTable[i].group_id # Null
  /\ \E u \in usersTable, c \in DOMAIN channelsTable : ~HasChannelRow(c, u)

\* C4: a sendMessage call that fails a validation leaves every table exactly
\* as it was before the call.
C4_NoPartialWrite ==
  [][(last'.op = "sendMessage" /\ last'.error # Ok) => tables' = tables]_vars

C4_Witness ==
  /\ last.op = "sendMessage"
  /\ last.error = ErrReplyCross
  /\ messagesTable # <<>>
  /\ channelMembersTable # <<>>

\* C5: a sendMessage to channel C whose reply_to_id names a message of a
\* different channel never succeeds and writes nothing; for an author who is
\* a member of C (and so passes the earlier checks) the error is 'Reply must
\* be to message in same conversation', also when the author is a member of
\* the other channel too.
replyInOtherChannel(input) ==
  /\ onlyChannel(input)
  /\ input.reply_to_id \in DOMAIN messagesTable
  /\ messagesTable[input.reply_to_id].channel_id \notin {Null, input.channel_id}

C5_CrossChannelReplyRejected ==
  \A input \in SendMessageInput :
    replyInOtherChannel(input) =>
      /\ sendMessage(input).error # Ok
      /\ sendMessage(input).messagesTable = messagesTable
      /\ (input.author_id \in usersTable /\ HasChannelRow(input.channel_id, input.author_id))
            => sendMessage(input).error = ErrReplyCross

C5_Witness ==
  /\ last.op = "sendMessage"
  /\ last.error = ErrReplyCross
  /\ \E input \in SendMessageInput :
       /\ replyInOtherChannel(input)
       /\ HasChannelRow(input.channel_id, input.author_id)
       /\ HasChannelRow(messagesTable[input.reply_to_id].channel_id, input.author_id)

\* C6: every stored message with reply_to_id set points at a stored message
\* of the same destination: the same channel, the same group, or, for a
\* direct message, a direct message between the same two users in either
\* direction; never a channel or group message for a direct reply or the
\* other way round.
SameConversation(m, t) ==
  \/ /\ m.channel_id # Null
     /\ t.channel_id = m.channel_id /\ t.group_id = Null /\ t.recipient_id = Null
  \/ /\ m.group_id # Null
     /\ t.group_id = m.group_id /\ t.channel_id = Null /\ t.recipient_id = Null
  \/ /\ m.recipient_id # Null
     /\ t.channel_id = Null /\ t.group_id = Null
     /\ <<t.author_id, t.recipient_id>> \in
          {<<m.author_id, m.recipient_id>>, <<m.recipient_id, m.author_id>>}

C6_ReplyInSameConversation ==
  \A i \in DOMAIN messagesTable :
    LET m == messagesTable[i] IN
    m.reply_to_id # Null =>
      /\ m.reply_to_id \in DOMAIN messagesTable
      /\ SameConversation(m, messagesTable[m.reply_to_id])

C6_Witness ==
  \E i \in DOMAIN messagesTable :
    LET m == messagesTable[i] IN
    /\ m.reply_to_id # Null
    /\ m.recipient_id # Null
    /\ m.author_id # m.recipient_id
    /\ messagesTable[m.reply_to_id].author_id = m.recipient_id

\* the receipts stored for (message_id, user_id)
ReceiptsOf(reads, message_id, user_id) ==
  {i \in DOMAIN reads : reads[i].message_id = message_id /\ reads[i].user_id = user_id}

\* C7: a markMessageRead(M, U) call made when a receipt of U for M is already
\* stored returns that stored receipt (same id, same read_at) and adds no row;
\* the first call for (M, U) adds exactly the row it returns; either way the
\* table then holds exactly one row for (M, U) and the rows of all other
\* (message, user) pairs are as they were.
C7_Step ==
  (last'.op = "markMessageRead" /\ last'.error = Ok) =>
    LET M == last'.input.message_id
        U == last'.input.user_id
        before == ReceiptsOf(messageReadsTable, M, U) IN
    /\ before # {} =>
         /\ messageReadsTable' = messageReadsTable
         /\ \E i \in before : last'.result = messageReadsTable[i]
    /\ before = {} =>
         /\ messageReadsTable' = Append(messageReadsTable, last'.result)
         /\ last'.result.message_id = M
         /\ last'.result.user_id = U
    /\ Cardinality(ReceiptsOf(messageReadsTable', M, U)) = 1
    /\ \A i \in DOMAIN messageReadsTable : messageReadsTable'[i] = messageReadsTable[i]

C7_MarkReadIdempotent == [][C7_Step]_vars

\* a repeated call has returned the first receipt, at a later time, while
\* another user's receipt for the same message is stored next to it
C7_Witness ==
  /\ last.op = "markMessageRead"
  /\ last.error = Ok
  /\ Len(messageReadsTable) = 2
  /\ last.result = messageReadsTable[1]
  /\ messageReadsTable[2].message_id = messageReadsTable[1].message_id
  /\ messageReadsTable[2].user_id # messageReadsTable[1].user_id
  /\ last.result.read_at < now

\* the messages of a conversation as user U sees it: those of the channel,
\* those of the group, or the direct messages the peer sent to U
ConversationMessages(conv, U) ==
  {m \in Range(messagesTable) :
     \/ conv.type = "channel" /\ m.channel_id = conv.id
     \/ conv.type = "group" /\ m.group_id = conv.id
     \/ conv.type = "direct" /\ m.author_id = conv.id /\ m.recipient_id = U}

HasReceipt(m, U) == ReceiptsOf(messageReadsTable, m.id, U) # {}

\* C9: for every user U and every conversation that getUserConversations(U)
\* returns, unread_count is the number of the conversation's messages minus
\* the number of those for which U has a read receipt; for a direct
\* conversation only the messages the peer sent to U are counted.
C9_UnreadCount ==
  \A U \in UserIds : \A tb \in TieBreaks :
    \A conv \in Range(getUserConversations(U, tb)) :
      conv.unread_count =
        Cardinality(ConversationMessages(conv, U))
          - Cardinality({m \in ConversationMessages(conv, U) : HasReceipt(m, U)})

C9_Witness ==
  \E U \in usersTable : \E tb \in TieBreaks :
    \E conv \in Range(getUserConversations(U, tb)) :
      /\ conv.type = "channel"
      /\ Cardinality(ConversationMessages(conv, U)) = 2
      /\ conv.unread_count = 1
      /\ \E m \in ConversationMessages(conv, U) :
           ~HasReceipt(m, U) /\ \E r \in Range(messageReadsTable) : r.message_id = m.id

\* C10: in no direct conversation of getUserConversations(U) does a message
\* that U wrote count as unread: unread_count is the number of unread
\* messages of the conversation written by somebody else.
C10_OwnMessagesNeverUnread ==
  \A U \in UserIds : \A tb \in TieBreaks :
    \A conv \in Range(getUserConversations(U, tb)) :
      conv.type = "direct" =>
        conv.unread_count =
          Cardinality({m \in ConversationMessages(conv, U) :
                         m.author_id # U /\ ~HasReceipt(m, U)})

\* C8: however the statements of concurrent markMessageRead calls for the
\* same (message, user) interleave, no call whose message and user exist
\* ends in an error, and the table never holds more than one row for one
\* (message, user).
C8_NoError ==
  \A c \in Calls :
    (/\ calls[c].pc # "done"
     /\ calls'[c].pc = "done"
     /\ calls'[c].input.message_id \in DOMAIN messagesTable
     /\ calls'[c].input.user_id \in usersTable) => calls'[c].error = Ok

C8_AtMostOneRow ==
  \A input \in MarkMessageReadInput :
    Cardinality(ReceiptsOf(messageReadsTable, input.message_id, input.user_id)) <= 1

C8_ConcurrentMarkReadSafe == []C8_AtMostOneRow /\ [][C8_NoError]_vars

\* the entries of a conversation list with the given type and id
Entries(conversations, type, id) ==
  SelectSeq(conversations, LAMBDA conv : conv.type = type /\ conv.id = id)

\* channel C was created by A, B joined it as a member, and its only
\* message is m, written by A
channelScenario(A, B, C, m) ==
  /\ A # B
  /\ C \in DOMAIN channelsTable
  /\ channelsTable[C].created_by = A
  /\ \E r \in Range(channelMembersTable) :
       r.channel_id = C /\ r.user_id = B /\ r.role = "member"
  /\ {o \in Range(messagesTable) : o.channel_id = C} = {m}
  /\ m.author_id = A

\* C11: once A has created a channel, B has joined it and A has sent its
\* one message m, getUserConversations(B) lists the channel once with
\* last_message = m, and with unread_count 1 as long as B has not marked m
\* read and unread_count 0 once B has.
C11_ChannelUnreadThenRead ==
  \A A \in UserIds, B \in UserIds, C \in ChannelIds : \A m \in Range(messagesTable) :
    channelScenario(A, B, C, m) =>
      \A tb \in TieBreaks :
        LET entries == Entries(getUserConversations(B, tb), "channel", C) IN
        /\ Len(entries) = 1
        /\ entries[1].last_message.id = m.id
        /\ entries[1].last_message.author_id = A
        /\ entries[1].last_message.created_at = m.created_at
        /\ entries[1].unread_count = IF HasReceipt(m, B) THEN 0 ELSE 1

C11_Witness ==
  \E A \in UserIds, B \in UserIds, C \in ChannelIds : \E m \in Range(messagesTable) :
    /\ channelScenario(A, B, C, m)
    /\ HasReceipt(m, B)
    /\ \E tb \in TieBreaks :
         Entries(getUserConversations(B, tb), "channel", C)[1].unread_count = 0

\* U is in no channel and in no group, and has sent and received no direct
\* message
noHistory(U) ==
  /\ ~\E r \in Range(channelMembersTable) : r.user_id = U
  /\ ~\E r \in Range(groupMembersTable) : r.user_id = U
  /\ ~\E m \in Range(messagesTable) :
        m.recipient_id # Null /\ (m.author_id = U \/ m.recipient_id = U)

\* C12: getUserConversations(U) is the empty list for every user without a
\* channel membership, a group membership or a direct message, and for
\* every user id that belongs to no user.
C12_EmptyForStrangers ==
  \A U \in UserIds : \A tb \in TieBreaks :
    (noHistory(U) \/ U \notin usersTable) => getUserConversations(U, tb) = <<>>

C12_Witness ==
  \E U \in usersTable, V \in usersTable : \E tb \in TieBreaks :
    /\ noHistory(U)
    /\ getUserConversations(U, tb) = <<>>
    /\ Len(getUserConversations(V, tb)) = 2

\* the users at the other end of the direct messages U has sent or received
Peers(U) ==
  {m.recipient_id : m \in {m \in Range(messagesTable) :
      m.recipient_id # Null /\ m.author_id = U}}
  \cup
  {m.author_id : m \in {m \in Range(messagesTable) : m.recipient_id = U}}

MemberChannels(U) == {C \in DOMAIN channelsTable : isChannelMember(C, U)}

MemberGroups(U) == {G \in DOMAIN groupsTable : isGroupMember(G, U)}

C14_NewestFirst ==
  \A U \in UserIds : \A tb \in TieBreaks :
    LET conversations == getUserConversations(U, tb) IN
    \A i \in DOMAIN conversations, j \in DOMAIN conversations :
      i < j =>
        /\ conversations[i].last_message = NoMessage
             => conversations[j].last_message = NoMessage
        /\ (conversations[i].last_message # NoMessage
              /\ conversations[j].last_message # NoMessage)
             => conversations[i].last_message.created_at
                  >= conversations[j].last_message.created_at

\* a channel written to late sorts before a direct conversation written to
\* early, and an empty conversation comes last
C14_Witness ==
  \E U \in usersTable : \E tb \in TieBreaks :
    LET conversations == getUserConversations(U, tb) IN
    /\ Len(conversations) = 3
    /\ conversations[1].type = "direct"
    /\ conversations[2].type = "channel"
    /\ conversations[1].last_message.created_at > conversations[2].last_message.created_at
    /\ conversations[2].last_message # NoMessage
    /\ conversations[3].last_message = NoMessage

\* every message of a conversation of U: those of the channel, those of the
\* group, or the direct messages between U and the peer in either direction
AllMessages(conv, U) ==
  {m \in Range(messagesTable) :
     \/ conv.type = "channel" /\ m.channel_id = conv.id
     \/ conv.type = "group" /\ m.group_id = conv.id
     \/ conv.type = "direct" /\ \/ m.author_id = conv.id /\ m.recipient_id = U
                                \/ m.author_id = U /\ m.recipient_id = conv.id}

\* C15: a conversation returned by getUserConversations has last_message
\* null exactly when it has no message, and then its unread_count is 0.
C15_NullLastMessage ==
  \A U \in UserIds : \A tb \in TieBreaks :
    \A conv \in Range(getUserConversations(U, tb)) :
      /\ conv.last_message = NoMessage <=> AllMessages(conv, U) = {}
      /\ conv.last_message = NoMessage => conv.unread_count = 0

C15_Witness ==
  \E U \in usersTable : \E tb \in TieBreaks :
    \E empty \in Range(getUserConversations(U, tb)) :
      \E full \in Range(getUserConversations(U, tb)) :
        /\ empty.last_message = NoMessage
        /\ empty.unread_count = 0
        /\ full.last_message # NoMessage
        /\ full.unread_count = 1
        /\ messageReadsTable # <<>>

\* the display names of the members of a group conversation other than U,
\* in the order of the participants
otherNames(conv, U) ==
  LET others == SelectSeq(conv.participants, LAMBDA p : p # U) IN
  [i \in DOMAIN others |-> displayNames[others[i]]]

\* the last call was a successful createGroup with a name
createdWithName == last.op = "createGroup" /\ last.error = Ok /\ last.input.name # None

\* C16 as stated: a group without a name is returned to U under the
\* comma-separated display names of its other members, or under
\* 'Unnamed Group' when it has no other member; a group created with a name
\* is returned under that name.
C16_GroupNameAsStated ==
  \A U \in NamedUserIds : \A tb \in TieBreaks :
    \A conv \in Range(getUserConversations(U, tb)) :
      conv.type = "group" =>
        /\ groupsTable[conv.id].name = None =>
             conv.name = IF otherNames(conv, U) = <<>> THEN UnnamedGroup
                         ELSE join(otherNames(conv, U))
        /\ (createdWithName /\ last.result = conv.id) => conv.name = last.input.name[1]

\* C16 amended, the returned names: a group without a stored name is
\* returned under the joined display names of its other members, or under
\* 'Unnamed Group' when that string is empty; a group with a stored name is
\* returned under it.
C16_ReturnedName ==
  \A U \in NamedUserIds : \A tb \in TieBreaks :
    \A conv \in Range(getUserConversations(U, tb)) :
      conv.type = "group" =>
        conv.name =
          IF groupsTable[conv.id].name # None THEN groupsTable[conv.id].name[1]
          ELSE IF join(otherNames(conv, U)) = <<>> THEN UnnamedGroup
          ELSE join(otherNames(conv, U))

\* C16 amended, the stored names: createGroup stores a non-empty name as
\* given and no name otherwise, and no later call changes a stored name.
C16_StoredName ==
  /\ (last'.op = "createGroup" /\ last'.error = Ok /\ groupsTable' # groupsTable) =>
       groupsTable'[last'.result].name =
         IF last'.input.name # None /\ last'.input.name[1] # <<>>
         THEN last'.input.name ELSE None
  /\ \A G \in DOMAIN groupsTable :
       G \in DOMAIN groupsTable' /\ groupsTable'[G].name = groupsTable[G].name

C16_GroupName == []C16_ReturnedName /\ [][C16_StoredName]_vars

\* an unnamed group of three: one member sees the names of the other two,
\* separated by a comma
C16_Witness ==
  \E U \in usersTable : \E tb \in TieBreaks :
    \E conv \in Range(getUserConversations(U, tb)) :
      /\ conv.type = "group"
      /\ groupsTable[conv.id].name = None
      /\ Len(otherNames(conv, U)) = 2
      /\ \A i \in 1..2 : otherNames(conv, U)[i] # <<>>
      /\ conv.name = otherNames(conv, U)[1] \o <<",", " ">> \o otherNames(conv, U)[2]

\* the location of an indicator row and the location an input names
Location(r) == <<r.channel_id, r.group_id, r.recipient_id>>

InputLocation(input) ==
  <<orNull(input.channel_id), orNull(input.group_id), orNull(input.recipient_id)>>

RowsAt(indicators, user_id, location) ==
  {r \in indicators : r.user_id = user_id /\ Location(r) = location}

\* a startTyping call that follows, time having advanced and nothing else
\* having been called, a successful startTyping call with the same input
secondStartTyping ==
  /\ last.op = "startTyping"
  /\ last.error = Ok
  /\ last'.op = "startTyping"
  /\ last'.input = last.input
  /\ now' = now
  /\ last.result.started_at < now
  /\ typingIndicatorsTable' # typingIndicatorsTable

\* C17: when startTyping is called twice in a row for the same user and
\* location, time advancing in between, the table afterwards holds exactly
\* one row for that user and location and the second call returns a
\* started_at strictly later than the first.
C17_Step ==
  secondStartTyping =>
    /\ last'.error = Ok
    /\ last'.result.started_at > last.result.started_at
    /\ Cardinality(RowsAt(typingIndicatorsTable', last'.input.user_id,
                          InputLocation(last'.input))) = 1

C17_SecondStartRefreshes == [][C17_Step]_vars

\* C18: a successful startTyping(user, L) refreshes a row only if that
\* row's location is exactly L; when the user has no live row at L it
\* inserts a new row at L; and it leaves every other live row as it was.
C18_ExactLocationUpsert ==
  \A input \in StartTypingInput : \A r \in startTyping(input) :
    r.error = Ok =>
      LET live == cleanUp(typingIndicatorsTable)
          refreshed == {x \in live : x.id = r.result.id} IN
      /\ \A x \in refreshed : Location(x) = InputLocation(input)
      /\ RowsAt(live, input.user_id, InputLocation(input)) = {} =>
           /\ refreshed = {}
           /\ Location(r.result) = InputLocation(input)
           /\ r.result \in r.typingIndicatorsTable
      /\ \A x \in live : x.id # r.result.id => x \in r.typingIndicatorsTable

\* C19: however the statements of concurrent startTyping calls interleave,
\* the table never holds two rows for the same user and location.
C19_OneRowPerLocation ==
  \A r1 \in typingIndicatorsTable, r2 \in typingIndicatorsTable :
    (r1.user_id = r2.user_id /\ Location(r1) = Location(r2)) => r1 = r2

noLocation(input) ==
  ~truthy(input.channel_id) /\ ~truthy(input.group_id) /\ ~truthy(input.recipient_id)

\* C20: stopTyping(user) without a location removes every indicator of the
\* user and no indicator of anybody else.
C20_StopClearsUser ==
  \A input \in StartTypingInput :
    noLocation(input) =>
      stopTyping(input) = {r \in typingIndicatorsTable : r.user_id # input.user_id}

\* the user types in two places, somebody else in one, and the call leaves
\* exactly the other user's indicator
C20_Witness ==
  \E input \in StartTypingInput :
    /\ noLocation(input)
    /\ Cardinality({Location(r) : r \in {r \in typingIndicatorsTable :
                                          r.user_id = input.user_id}}) = 2
    /\ Cardinality(stopTyping(input)) = 1
    /\ Cardinality(typingIndicatorsTable) = 3

\* the input names exactly one location field
oneLocation(input) ==
  Cardinality({f \in {"channel_id", "group_id", "recipient_id"} : truthy(input[f])}) = 1

\* C21: stopTyping(user, L) for a location L deletes exactly the user's
\* indicators whose location is L, the other two fields being null; the
\* user's indicators elsewhere and everybody else's indicators stay.
C21_StopAtLocation ==
  \A input \in StartTypingInput :
    oneLocation(input) =>
      stopTyping(input) =
        typingIndicatorsTable
          \ RowsAt(typingIndicatorsTable, input.user_id, InputLocation(input))

\* the user types in channel L and elsewhere, somebody else types in L, and
\* the call removes the first indicator only
C21_Witness ==
  \E input \in StartTypingInput :
    /\ oneLocation(input)
    /\ truthy(input.channel_id)
    /\ Cardinality(typingIndicatorsTable) = 3
    /\ Cardinality(stopTyping(input)) = 2
    /\ \E r \in stopTyping(input) : r.user_id = input.user_id
    /\ \E r \in stopTyping(input) :
         r.user_id # input.user_id /\ Location(r) = InputLocation(input)

\* the step is a stopTyping call
stopTypingCalled == last'.op = "stopTyping" /\ typingIndicatorIds' = typingIndicatorIds

\* C22: stopTyping completes without an error; when no indicator matches or
\* the user does not exist it leaves the table unchanged, and so does a
\* second call with the input of the stopTyping call just before it.
C22_Step ==
  stopTypingCalled =>
    /\ last'.error = Ok
    /\ (\/ last'.input.user_id \notin usersTable
        \/ ~\E r \in typingIndicatorsTable :
              /\ r.user_id = last'.input.user_id
              /\ noLocation(last'.input) \/ Location(r) = InputLocation(last'.input))
         => typingIndicatorsTable' = typingIndicatorsTable
    /\ (last.op = "stopTyping" /\ last.input = last'.input)
         => typingIndicatorsTable' = typingIndicatorsTable

C22_StopNothingToDo == [][C22_Step]_vars

\* a stopTyping call for a user that does not exist, with indicators stored
C22_Witness ==
  /\ last.op = "stopTyping"
  /\ last.error = Ok
  /\ last.input.user_id \notin usersTable
  /\ Cardinality(typingIndicatorsTable) = 2

\* the arguments of getTypingIndicators
ChannelFilters == {Null, Empty, 1}
OtherFilters == {Null, 1}

\* C23: getTypingIndicators never returns an indicator that is older than the
\* thirty-second window at the time of the call, and every indicator it
\* returns matches each location filter that was passed (an argument that is
\* absent or the empty string is no filter)
C23_LiveAndFiltered ==
  \A channelId \in ChannelFilters, groupId \in OtherFilters, recipientId \in OtherFilters :
    \A r \in getTypingIndicators(channelId, groupId, recipientId) :
      /\ now - r.started_at <= TypingVisibilityWindow
      /\ truthy(channelId) => r.channel_id = channelId
      /\ truthy(groupId) => r.group_id = groupId
      /\ truthy(recipientId) => r.recipient_id = recipientId

\* the table holds an expired indicator of the channel, a live one of the
\* channel and a live one elsewhere, and the call returns the second only
C23_Witness ==
  /\ \E r \in typingIndicatorsTable :
       r.channel_id = 1 /\ now - r.started_at > TypingVisibilityWindow
  /\ \E r \in typingIndicatorsTable :
       r.channel_id # 1 /\ now - r.started_at <= TypingVisibilityWindow
  /\ Cardinality(getTypingIndicators(1, Null, Null)) = 1
\* an indicator of the user is among those returned for the filters
typingShown(user_id, channelId, groupId, recipientId) ==
  \E r \in getTypingIndicators(channelId, groupId, recipientId) : r.user_id = user_id

\* C24: after startTyping(u, L) at time t, as long as u does not call
\* stopTyping, every getTypingIndicators(L) call made less than thirty seconds
\* after t returns u's indicator, whatever the other users do in between:
\* no step other than a stopTyping of u takes an indicator that is younger
\* than thirty seconds out of what getTypingIndicators(L) returns
C24_Step ==
  \A channelId \in ChannelFilters, groupId \in OtherFilters, recipientId \in OtherFilters :
    \A r \in getTypingIndicators(channelId, groupId, recipientId) :
      (now' - r.started_at < TypingVisibilityWindow)
        => typingShown(r.user_id, channelId, groupId, recipientId)'

C24_VisibleForWindow == [][C24_Step]_vars
\* C25: after any interleaving of createChannel, joinChannel and createGroup
\* calls, concurrent joinChannel calls for the same channel and user
\* included, there is at most one membership row per (channel, user) and at
\* most one per (group, user)
C25_OneMembershipRow ==
  /\ \A i, j \in DOMAIN channelMembersTable :
       (/\ channelMembersTable[i].channel_id = channelMembersTable[j].channel_id
        /\ channelMembersTable[i].user_id = channelMembersTable[j].user_id) => i = j
  /\ \A i, j \in DOMAIN groupMembersTable :
       (/\ groupMembersTable[i].group_id = groupMembersTable[j].group_id
        /\ groupMembersTable[i].user_id = groupMembersTable[j].user_id) => i = j
\* the membership rows of a user in a channel
membershipsOf(channel_id, user_id) ==
  {i \in DOMAIN channelMembersTable :
     /\ channelMembersTable[i].channel_id = channel_id
     /\ channelMembersTable[i].user_id = user_id}

\* C26: after any sequence of completed createChannel and joinChannel calls
\* every channel has exactly one membership row for its creator, with role
\* owner; createChannel for a creator id that does not exist fails and
\* creates no channel and no membership
C26_CreatorRow ==
  \A c \in DOMAIN channelsTable :
    /\ channelsTable[c].created_by \in usersTable
    /\ Cardinality(membershipsOf(c, channelsTable[c].created_by)) = 1
    /\ \A i \in membershipsOf(c, channelsTable[c].created_by) :
         channelMembersTable[i].role = "owner"

C26_FailedStep ==
  (last'.op = "createChannel" /\ last'.error # Ok)
    => /\ channelsTable' = channelsTable
       /\ channelMembersTable' = channelMembersTable

C26_CreatorIsOwner == []C26_CreatorRow /\ [][C26_FailedStep]_vars

\* a channel has a second member, a join of somebody who is a member already
\* was just refused
C26_Witness ==
  /\ Len(channelsTable) = 2
  /\ Len(channelMembersTable) = 3
  /\ last.op = "joinChannel"
  /\ last.error = "User is already a member of this channel"
\* the membership rows of a user in a group, in a group_members table
groupRowsOf(rows, group_id, user_id) ==
  {i \in DOMAIN rows : rows[i].group_id = group_id /\ rows[i].user_id = user_id}

\* C27: a successful createGroup creates exactly one membership row for each
\* distinct user in member_ids together with created_by (the creator is a
\* member whether or not it is listed, a user listed more than once gets a
\* single row), and no other row
C27_Step ==
  (last'.op = "createGroup" /\ last'.error = Ok /\ groupsTable' # groupsTable) =>
    LET input == last'.input
        G == last'.result IN
    /\ \A u \in NamedUserIds :
         Cardinality(groupRowsOf(groupMembersTable', G, u)) =
           IF u = input.created_by \/ \E k \in DOMAIN input.member_ids : input.member_ids[k] = u
           THEN 1 ELSE 0
    /\ SubSeq(groupMembersTable', 1, Len(groupMembersTable)) = groupMembersTable
    /\ \A i \in DOMAIN groupMembersTable' :
         i > Len(groupMembersTable) => groupMembersTable'[i].group_id = G

C27_OneRowPerMember == [][C27_Step]_vars

\* the creator is not listed, somebody else is listed twice, and the group
\* has two membership rows
C27_Witness ==
  /\ last.op = "createGroup"
  /\ last.error = Ok
  /\ Len(last.input.member_ids) = 2
  /\ last.input.member_ids[1] = last.input.member_ids[2]
  /\ last.input.member_ids[1] # last.input.created_by
  /\ Len(groupMembersTable) = 2
\* C28: every message returned by searchMessages(query, U, ...) is one U has
\* access to: a direct message (one without channel and group) authored by
\* or addressed to U, a message in a channel U is a member of, or a message
\* in a group U is a member of; when a channelId or groupId is given and U
\* is not a member of it, the result is empty
C28_OnlyAccessible ==
  \A matching \in Matchings, U \in UserIds, channelId \in OptionalIds(ChannelIds),
     groupId \in OptionalIds(GroupIds), limit \in SearchLimits, tb \in TieBreaks :
    LET found == searchMessages(matching, U, channelId, groupId, limit, tb) IN
    /\ \A m \in found :
         \/ /\ m.channel_id = Null
            /\ m.group_id = Null
            /\ m.author_id = U \/ m.recipient_id = U
         \/ m.channel_id \in MemberChannels(U)
         \/ m.group_id \in MemberGroups(U)
    /\ (truthy(channelId) /\ channelId \notin MemberChannels(U)) => found = {}
    /\ (truthy(groupId) /\ groupId \notin MemberGroups(U)) => found = {}

\* a user finds one of the two messages of a channel it is a member of, and
\* another user, not a member, who asks for that channel finds nothing
C28_Witness ==
  \E U, V \in UserIds : \E tb \in TieBreaks :
    /\ 1 \in MemberChannels(U)
    /\ 1 \notin MemberChannels(V)
    /\ Len(messagesTable) = 2
    /\ \A i \in DOMAIN messagesTable : messagesTable[i].channel_id = 1
    /\ Cardinality(searchMessages({1, 2}, U, Null, Null, 1, tb)) = 1
    /\ searchMessages({1, 2}, V, 1, Null, 2, tb) = {}
    /\ searchMessages({1, 2}, V, Null, Null, 2, tb) = {}

\* C29: when searchMessages is called with a channelId (respectively a
\* groupId) of which the user is a member, every returned message belongs to
\* that channel (group): messages of other channels, of groups and direct
\* messages are not returned
C29_OnlyTheConversation ==
  \A matching \in Matchings, U \in UserIds, limit \in SearchLimits, tb \in TieBreaks :
    /\ \A channelId \in MemberChannels(U) :
         \A m \in searchMessages(matching, U, channelId, Null, limit, tb) :
           m.channel_id = channelId
    /\ \A groupId \in MemberGroups(U) :
         \A m \in searchMessages(matching, U, Null, groupId, limit, tb) :
           m.group_id = groupId
\* a loopback host, or a host of a private network
loopbackOrPrivate(host) ==
  \/ host.kind = "name" /\ host.a = 0
  \/ host.kind = "ipv4" /\ host.a = 127
  \/ host.kind = "ipv4" /\ host.a = 10
  \/ host.kind = "ipv4" /\ host.a = 172 /\ host.b \in 16..31
  \/ host.kind = "ipv4" /\ host.a = 192 /\ host.b = 168
  \/ host.kind = "ipv6" /\ host.a = 0 /\ host.c = 1
  \/ host.kind = "ipv6" /\ host.a \in 64512..65023
  \/ host.kind = "ipv6" /\ host.a \in 65152..65215

\* C30: generateLinkPreview never throws: for a URL that is not http(s), a
\* loopback or private-network host, a non-OK response, a non-HTML content
\* type, a declared content length above 1 MB, or a fetch that rejects or
\* times out, it returns null; for the invalid and the blocked URLs it
\* returns null without issuing any fetch
C30_NullOnFailure ==
  last.op = "generateLinkPreview" =>
    LET url == last.input.url
        response == last.input.response
        blocked == \/ ~url.parses
                   \/ url.protocol \notin {"http:", "https:"}
                   \/ loopbackOrPrivate(url.host) IN
    /\ last.error = Ok
    /\ blocked => ~last.result.preview /\ ~last.result.fetched
    /\ (\/ response.kind # "response"
        \/ ~response.ok
        \/ ~response.html
        \/ response.contentLength # Null /\ response.contentLength > MAX_SIZE)
         => ~last.result.preview
\* C31: markMessageRead for a message id that does not exist fails with
\* 'Message not found', and for an existing message with a user id that does
\* not exist fails with 'User not found'; in both cases no read receipt is
\* inserted
C31_Step ==
  last'.op = "markMessageRead" =>
    /\ last'.input.message_id \notin DOMAIN messagesTable =>
         /\ last'.error = "Message not found"
         /\ messageReadsTable' = messageReadsTable
    /\ (/\ last'.input.message_id \in DOMAIN messagesTable
        /\ last'.input.user_id \notin usersTable) =>
         /\ last'.error = "User not found"
         /\ messageReadsTable' = messageReadsTable

C31_NotFound == [][C31_Step]_vars

\* a message with a receipt exists, and a call for that message by a user id
\* that does not exist was refused
C31_Witness ==
  /\ last.op = "markMessageRead"
  /\ last.error = "User not found"
  /\ last.input.message_id \in DOMAIN messagesTable
  /\ Len(messageReadsTable) = 1
  /\ messageReadsTable[1].message_id = last.input.message_id
\* the destinations an input names
destinationsNamed(input) ==
  {f \in {"channel_id", "group_id", "recipient_id"} : truthy(input[f])}

\* the error of the first precondition, in the stated order, that the input
\* violates
firstViolated(input) ==
  IF input.author_id \notin usersTable THEN ErrAuthor
  ELSE IF Cardinality(destinationsNamed(input)) # 1 THEN ErrDestination
  ELSE IF /\ truthy(input.channel_id)
          /\ input.channel_id \notin MemberChannels(input.author_id)
       THEN ErrNotChannelMember
  ELSE IF /\ truthy(input.group_id)
          /\ input.group_id \notin MemberGroups(input.author_id)
       THEN ErrNotGroupMember
  ELSE IF truthy(input.recipient_id) /\ input.recipient_id \notin usersTable
       THEN ErrRecipient
  ELSE IF truthy(input.reply_to_id) /\ input.reply_to_id \notin DOMAIN messagesTable
       THEN ErrReplyMissing
  ELSE IF truthy(input.reply_to_id) /\ ~sameDest(input, messagesTable[input.reply_to_id])
       THEN ErrReplyCross
  ELSE Ok

\* C32: sendMessage checks its preconditions in the fixed order author
\* exists, exactly one destination, channel or group membership, recipient
\* exists, reply target exists, reply target in the same destination; when
\* one input violates several of them, the reported error is that of the
\* first violated check in this order
C32_FirstViolatedCheck ==
  \A input \in SendMessageInput : sendMessage(input).error = firstViolated(input)
\* the step is one startTyping call
startTypingCalled ==
  last'.op = "startTyping" /\ now' = now /\ usersTable' = usersTable

\* C33: every startTyping call first deletes every typing indicator, of any
\* user and any location, whose started_at is older than the ten-second
\* cleanup threshold, and leaves every other indicator (those younger than
\* the threshold, and those exactly that old), other than the one it
\* upserts, unchanged
C33_Step ==
  startTypingCalled =>
    /\ \A q \in typingIndicatorsTable :
         q.started_at < now - TypingCleanupWindow =>
           \A p \in typingIndicatorsTable' : p.id # q.id
    /\ \A q \in typingIndicatorsTable :
         q.started_at >= now - TypingCleanupWindow =>
           \/ q \in typingIndicatorsTable'
           \/ last'.error = Ok /\ last'.result.id = q.id
    /\ \A p \in typingIndicatorsTable' :
         \/ p \in typingIndicatorsTable
         \/ last'.error = Ok /\ p = last'.result

C33_CleanupFrame == [][C33_Step]_vars

\* three indicators were created, the one of twenty seconds ago is gone, the
\* one of ten seconds ago is as it was, next to the one just inserted
C33_Witness ==
  /\ last.op = "startTyping"
  /\ last.error = Ok
  /\ last.result.id = 3
  /\ now = 2
  /\ Cardinality(typingIndicatorsTable) = 2
  /\ \E q \in typingIndicatorsTable : q.id = 2 /\ q.started_at = 1
  /\ \E q \in typingIndicatorsTable : q.id = 3 /\ q.started_at = 2
\* C34: a successful sendMessage inserts exactly one row into the messages
\* table and changes no other table: it creates no read receipt, and
\* creates, changes or deletes no membership and no typing indicator
C34_OneRow ==
  \A input \in SendMessageInput :
    sendMessage(input).error = Ok =>
      /\ Len(sendMessage(input).messagesTable) = Len(messagesTable) + 1
      /\ SubSeq(sendMessage(input).messagesTable, 1, Len(messagesTable)) = messagesTable

C34_Step ==
  messagesTable' # messagesTable =>
    /\ Len(messagesTable') = Len(messagesTable) + 1
    /\ SubSeq(messagesTable', 1, Len(messagesTable)) = messagesTable
    /\ messageReadsTable' = messageReadsTable
    /\ \A i \in DOMAIN messageReadsTable' :
         messageReadsTable'[i].message_id # Len(messagesTable')
    /\ channelMembersTable' = channelMembersTable
    /\ groupMembersTable' = groupMembersTable
    /\ typingIndicatorsTable' = typingIndicatorsTable
    /\ usersTable' = usersTable
    /\ channelsTable' = channelsTable
    /\ groupsTable' = groupsTable

C34_SendFrame == []C34_OneRow /\ [][C34_Step]_vars

\* a second message was sent to a channel where a receipt, a membership and
\* a typing indicator exist
C34_Witness ==
  /\ Len(messagesTable) = 2
  /\ messagesTable[2].channel_id = 1
  /\ Len(messageReadsTable) = 1
  /\ messageReadsTable[1].message_id = 1
  /\ Len(channelMembersTable) = 1
  /\ Cardinality(typingIndicatorsTable) = 1
\* C35: when two or more messages of a conversation share the greatest
\* creation timestamp, getUserConversations picks last_message by one
\* consistent tie-break: two calls on the same store state always return
\* the same last_message for that conversation
C35_ConsistentTieBreak ==
  \A U \in UserIds : \A tb1 \in TieBreaks, tb2 \in TieBreaks :
    \A c1 \in Range(getUserConversations(U, tb1)) :
      \A c2 \in Range(getUserConversations(U, tb2)) :
        (c1.type = c2.type /\ c1.id = c2.id) => c1.last_message = c2.last_message
\* C36: whenever startTyping is called for a (user, location) for which a
\* startTyping has already created an indicator that was not stopped, the
\* call returns the same indicator id as the earlier call (the row is
\* updated in place, never replaced by a new row), whatever time has passed
\* between the two calls
C36_Step ==
  (/\ last.op = "startTyping"
   /\ last.error = Ok
   /\ Location(last.result) = InputLocation(last.input)
   /\ last'.op = "startTyping"
   /\ last'.input = last.input
   /\ now' = now
   /\ usersTable' = usersTable
   /\ typingIndicatorsTable' # typingIndicatorsTable)
    => /\ last'.error = Ok
       /\ last'.result.id = last.result.id

C36_SameIndicatorId == [][C36_Step]_vars
\* the unread counts getUserConversations(U) reports for a conversation
unreadCounts(U, type, id, tb) ==
  {conv.unread_count : conv \in Range(Entries(getUserConversations(U, tb), type, id))}

\* the message is in the channel or group
inConversation(m, type, id) ==
  \/ type = "channel" /\ m.channel_id = id
  \/ type = "group" /\ m.group_id = id

\* the messages of a channel or group for which the user has no receipt
unreadMessages(U, type, id) ==
  {m \in Range(messagesTable) : inConversation(m, type, id) /\ ~HasReceipt(m, U)}

\* C37: in channel and group conversations a message counts toward the
\* unread_count of its own author: right after user U's successful
\* sendMessage to a channel or group, getUserConversations(U) reports an
\* unread_count for that conversation one higher than before, and it stays
\* so until U calls markMessageRead on that message. In two parts: what
\* getUserConversations(U) reports for a channel or group is always the
\* number of its messages without a receipt of U, U's own included; and a
\* sendMessage of U adds exactly the new message to them.
C37_SendStep ==
  messagesTable' # messagesTable =>
    \A U \in UserIds, type \in {"channel", "group"}, id \in ChannelIds \cup GroupIds :
      (/\ messagesTable'[Len(messagesTable')].author_id = U
       /\ inConversation(messagesTable'[Len(messagesTable')], type, id)) =>
        /\ messagesTable'[Len(messagesTable')] \notin unreadMessages(U, type, id)
        /\ unreadMessages(U, type, id)' =
             unreadMessages(U, type, id) \cup {messagesTable'[Len(messagesTable')]}

C37_OwnCounted ==
  \A U \in UserIds : \A tb \in TieBreaks :
    /\ \A conv \in Range(getUserConversations(U, tb)) :
         conv.type \in {"channel", "group"} =>
           /\ conv.unread_count = Cardinality(unreadMessages(U, conv.type, conv.id))
           /\ \A m \in Range(messagesTable) :
                (/\ inConversation(m, conv.type, conv.id)
                 /\ m.author_id = U
                 /\ ~HasReceipt(m, U)) => conv.unread_count >= 1
    /\ \A m \in Range(messagesTable) :
         /\ m.channel_id # Null /\ m.author_id = U
              => Len(Entries(getUserConversations(U, tb), "channel", m.channel_id)) = 1
         /\ m.group_id # Null /\ m.author_id = U
              => Len(Entries(getUserConversations(U, tb), "group", m.group_id)) = 1

C37_OwnMessagesUnread == []C37_OwnCounted /\ [][C37_SendStep]_vars

\* a user wrote two messages to a channel and marked one of them read: the
\* channel is reported with one unread message
C37_Witness ==
  \E U \in usersTable : \E tb \in TieBreaks :
    /\ Len(messagesTable) = 2
    /\ \A i \in DOMAIN messagesTable :
         messagesTable[i].author_id = U /\ messagesTable[i].channel_id = 1
    /\ Len(messageReadsTable) = 1
    /\ messageReadsTable[1].user_id = U
    /\ unreadCounts(U, "channel", 1, tb) = {1}

\* a message of a conversation of user U: of a channel or group U is a
\* member of, or a direct message sent by or addressed to U
partOf(m, U) ==
  \/ m.channel_id \in MemberChannels(U)
  \/ m.group_id \in MemberGroups(U)
  \/ /\ m.channel_id = Null
     /\ m.group_id = Null
     /\ (m.author_id = U \/ m.recipient_id = U)

\* the part of the store user U has a part in: the messages of U's
\* conversations, U's own receipts for them, and the membership rows of
\* the channels and groups U is a member of
ownMessages(U) == {m \in Range(messagesTable) : partOf(m, U)}

ownReceipts(U) ==
  {r \in Range(messageReadsTable) :
     r.user_id = U /\ \E m \in ownMessages(U) : m.id = r.message_id}

ownMembers(U, type, id) ==
  CASE type = "channel" ->
         userIdsOf(SelectSeq(channelMembersTable,
                     LAMBDA r : r.channel_id = id /\ id \in MemberChannels(U)))
    [] type = "group" ->
         userIdsOf(SelectSeq(groupMembersTable,
                     LAMBDA r : r.group_id = id /\ id \in MemberGroups(U)))
    [] type = "direct" -> <<U, id>>

\* the messages of a conversation of U, taken from U's part alone
ownTimeline(U, type, id) ==
  {m \in ownMessages(U) :
     CASE type = "channel" -> m.channel_id = id
       [] type = "group" -> m.group_id = id
       [] type = "direct" ->
            /\ m.channel_id = Null /\ m.group_id = Null
            /\ \/ m.author_id = U /\ m.recipient_id = id
               \/ m.author_id = id /\ m.recipient_id = U}

ownUnread(U, type, id) ==
  {m \in ownMessages(U) :
     /\ conditions(m, U, id, type)
     /\ ~\E r \in ownReceipts(U) : r.message_id = m.id}

\* the conversations of U, by type and id, taken from U's part alone
ownKeys(U) ==
  {<<"channel", C>> : C \in MemberChannels(U)}
  \cup {<<"group", G>> : G \in MemberGroups(U)}
  \cup {<<"direct", P>> : P \in {P \in usersTable : ownTimeline(U, "direct", P) # {}}}

\* C38: getUserConversations(U) does not depend on data U has no part in:
\* two store states that differ only in messages, memberships and receipts
\* of channels and groups U is not a member of, in direct messages neither
\* sent by nor addressed to U, and in other users' read receipts, give the
\* same result for U. Stated on one store: the conversations returned, and
\* the participants, last_message and unread_count of each, are what U's
\* part of the store alone gives.
C38_OwnPartOnly ==
  \A U \in usersTable : \A tb \in TieBreaks :
    LET result == getUserConversations(U, tb) IN
    /\ {<<result[i].type, result[i].id>> : i \in DOMAIN result} = ownKeys(U)
    /\ \A i \in DOMAIN result :
         LET conv == result[i]
             newest == lastMessages(ownTimeline(U, conv.type, conv.id), tb) IN
         /\ conv.participants = ownMembers(U, conv.type, conv.id)
         /\ conv.unread_count = Cardinality(ownUnread(U, conv.type, conv.id))
         /\ conv.last_message.id = (IF newest = <<>> THEN Null ELSE newest[1].id)
         /\ conv.last_message.created_at =
              (IF newest = <<>> THEN Null ELSE newest[1].created_at)
         /\ conv.last_message.author_id =
              (IF newest = <<>> THEN Null ELSE newest[1].author_id)

\* user 1 has a conversation with an unread message that user 2 has read,
\* and the store holds a message user 1 has no part in
C38_Witness ==
  /\ 1 \in usersTable
  /\ \E m \in Range(messagesTable) : ~partOf(m, 1)
  /\ \E r \in Range(messageReadsTable) :
       /\ r.user_id = 2
       /\ \E m \in ownMessages(1) : m.id = r.message_id /\ m \in ownUnread(1, "channel", m.channel_id)
  /\ \A tb \in TieBreaks : getUserConversations(1, tb) # <<>>

\* the messages counted as unread for user V in a conversation
unreadFor(V, type, id) ==
  {m \in Range(messagesTable) : conditions(m, V, id, type) /\ ~HasReceipt(m, V)}

ConversationTypes == {"channel", "group", "direct"}

ConversationIds == ChannelIds \cup GroupIds \cup UserIds

\* what getUserConversations reports is read off the tables: unread_count
\* is the number of messages counted as unread, last_message the newest
\* message of the conversation
C39_Reported ==
  \A V \in usersTable : \A tb \in TieBreaks :
    \A conv \in Range(getUserConversations(V, tb)) :
      LET newest == lastMessages(ownTimeline(V, conv.type, conv.id), tb) IN
      /\ conv.unread_count = Cardinality(unreadFor(V, conv.type, conv.id))
      /\ conv.last_message.id = (IF newest = <<>> THEN Null ELSE newest[1].id)

\* a markMessageRead that stores a receipt for (M, U) takes M out of what
\* is counted as unread for U, in at most one conversation of U, and leaves
\* everything else that is counted, and every message, as it was
C39_Step ==
  messageReadsTable' # messageReadsTable =>
    LET U == messageReadsTable'[Len(messageReadsTable')].user_id
        M == messagesTable[messageReadsTable'[Len(messageReadsTable')].message_id] IN
    /\ UNCHANGED <<usersTable, displayNames, channelsTable, channelMembersTable,
                   groupsTable, groupMembersTable, messagesTable>>
    /\ \A V \in UserIds, type \in ConversationTypes, id \in ConversationIds :
         unreadFor(V, type, id)' =
           IF V = U THEN unreadFor(V, type, id) \ {M} ELSE unreadFor(V, type, id)
    /\ Cardinality({key \in ownKeys(U) : M \in unreadFor(U, key[1], key[2])}) <= 1

\* C39: markMessageRead(M, U) changes the unread_count that
\* getUserConversations reports only for user U and only for the
\* conversation that contains M, lowering it by one when M was unread by U
\* and counted for U; the unread counts of every other user and
\* conversation, and every last_message, are unchanged.
C39_ReadFrame == []C39_Reported /\ [][C39_Step]_vars

\* two members of a group with two messages, one of which one member has
\* read: that member is left with one unread message, the other with two
C39_Witness ==
  \E U \in usersTable : \E V \in usersTable \ {U} : \E tb \in TieBreaks :
    /\ Len(messageReadsTable) = 1
    /\ messageReadsTable[1].user_id = U
    /\ unreadCounts(U, "group", 1, tb) = {1}
    /\ unreadCounts(V, "group", 1, tb) = {2}

\* C40: markMessageRead performs no access check: for any existing user U
\* and any existing message M it succeeds and stores a receipt, whether or
\* not U is a member of M's channel or group or a party to M's direct
\* conversation.
C40_NoAccessCheck ==
  \A input \in MarkMessageReadInput :
    (input.message_id \in DOMAIN messagesTable /\ input.user_id \in usersTable) =>
      \A r \in markMessageRead(input) :
        /\ r.error = Ok
        /\ r.result \in Range(r.messageReadsTable)
        /\ r.result.message_id = input.message_id
        /\ r.result.user_id = input.user_id

\* a receipt of a user for a message of a conversation the user is not in,
\* and a further such call to make
C40_Witness ==
  \E row \in Range(messageReadsTable) :
    /\ ~partOf(messagesTable[row.message_id], row.user_id)
    /\ \E input \in MarkMessageReadInput :
         /\ input.message_id \in DOMAIN messagesTable
         /\ input.user_id \in usersTable
         /\ existingRead(input) = {}
         /\ ~partOf(messagesTable[input.message_id], input.user_id)
====
